---- MODULE Spec2Model ----
(***************************************************************************)
(* Model of the nested-structure editor of the Builder.io model manager:   *)
(* the path-scoped mutator (updateDataAtPath of ContentDetail) over a heap *)
(* of JavaScript containers, and the schema-driven walker (the root rows   *)
(* of ContentDetail, the nested rows of DataRow, normalizeFieldOrder).     *)
(*                                                                         *)
(* Strings are sequences of one-character strings, so that the regular     *)
(* expression replace and parseInt of the source are computed, not         *)
(* assumed.  JavaScript values are records of one shape; containers live   *)
(* in a heap so that copying and in-place writes are different things.     *)
(***************************************************************************)
EXTENDS Integers, Sequences, FiniteSets, TLC

VARIABLES
    heap,       \* the JavaScript heap: address -> container cell
    root,       \* content.data, a reference into heap
    path,       \* editingField.path handed to updateDataAtPath
    newValue,   \* the value handed to updateDataAtPath
    result,     \* what the call produced: a value, or a thrown error
    snapshot,   \* deep copy of root taken before the call
    pc,         \* position of the mutator harness
    content,    \* walker: content.data as an ordered tree
    fields,     \* walker: model.fields
    expanded,   \* walker: the paths of the DataRows whose isExpanded is true
    jsonData,   \* walker: the data shown by ContentJsonEditor
    currentView,\* walker: App's currentView
    rendered,   \* walker: the rows the last render of ContentDetail drew
    contentList,    \* differ: the data of the two entries of ContentList's content
    comparisonMode, \* differ: ContentList's comparisonMode
    selectedForComparison, \* differ: the selected entries, in insertion order
    showComparison, \* differ: ContentList's showComparison
    diffs,      \* differ: the DiffResult rows of ContentComparison
    expandedPaths,  \* differ: the expandedPaths of ContentComparison
    showConfirmation, \* modal: the parent renders ConfirmationModal
    actionType, \* modal: the actionType prop
    itemName,   \* modal: the itemName prop
    inputValue, \* modal: the text typed into the modal
    started,    \* modal: the operations onConfirm started, with the text typed
    deleting,   \* modal: the delete requests in flight
    model,      \* model editor: the model prop, or nothing for a new model
    serverModel,\* model editor: the name, kind and fields the server holds
    jsonContent,\* model editor: the text of the textarea
    parsedModel,\* model editor: the parsedModel state
    error,      \* model editor: the error message shown
    success,    \* model editor: the success message shown
    loading,    \* model editor: a request is in flight
    sent,       \* model editor: the requests sent, in order
    editingField, \* content detail: the field being edited, or nothing
    saving,     \* content detail: a field save is in flight
    serverData, \* content detail: the data of the entry the server holds
    writes,     \* content detail: the updateContent requests sent, in order
    timers,     \* content detail: the refreshes scheduled and not yet run
    fetching,   \* content detail: the getContentById requests in flight
    refreshes,  \* content detail: the getContentById requests made
    fieldType,  \* field editor: the type of the field, "none" without one
    editContent,\* field editor: the text of the plain input
    parsedValue,\* field editor: the parsedValue state
    saved,      \* field editor: the values handed to onSave, in order
    mounted,    \* field editor: the editor is on screen
    importKind, \* import: what the list imports, content or models
    importFile, \* import: the parsed text of the file chosen
    importPhase,\* import: where handleImport stands
    importIndex,\* import: the entry the loop stands at
    successCount, \* import: handleImport's successCount
    errorCount, \* import: handleImport's errorCount
    importing,  \* import: the importing flag
    attempts,   \* import: the entries the loop has taken up, in order
    created,    \* import: the create requests sent, in order
    reloads     \* import: the reloads of the list

modalVars == <<showConfirmation, actionType, itemName, inputValue, started, deleting>>
editorVars == <<model, serverModel, jsonContent, parsedModel, loading, sent>>
msgVars == <<error, success>>
detailVars == <<editingField, saving, serverData, writes, timers, fetching, refreshes>>
fieldEditorVars == <<fieldType, editContent, parsedValue, saved, mounted>>
importVars == <<importKind, importFile, importPhase, importIndex, successCount, errorCount,
                importing, attempts, created, reloads>>

\* the variables of the parts modelled after the differ
laterVars == <<modalVars, editorVars, msgVars, detailVars, fieldEditorVars, importVars>>

vars == <<heap, root, path, newValue, result, snapshot, pc,
          content, fields, expanded, jsonData, currentView, rendered,
          contentList, comparisonMode, selectedForComparison,
          showComparison, diffs, expandedPaths, laterVars>>

mutVars == <<heap, root, path, newValue, result, snapshot, pc>>
walkVars == <<content, fields, expanded, jsonData, currentView, rendered>>
diffVars == <<contentList, comparisonMode, selectedForComparison,
              showComparison, diffs, expandedPaths>>

\* no confirmation is open and none was ever given
ModalIdle ==
    /\ showConfirmation = FALSE
    /\ actionType = "none"
    /\ itemName = <<>>
    /\ inputValue = <<>>
    /\ started = <<>>
    /\ deleting = 0

\* no model editor is open
EditorIdle ==
    /\ model = [t |-> "undefined", v |-> <<>>, ent |-> <<>>, el |-> <<>>]
    /\ serverModel = [t |-> "undefined", v |-> <<>>, ent |-> <<>>, el |-> <<>>]
    /\ jsonContent = <<>>
    /\ parsedModel = [t |-> "null", v |-> <<>>, ent |-> <<>>, el |-> <<>>]
    /\ loading = FALSE
    /\ sent = <<>>

\* no message is shown
MessagesIdle == error = "" /\ success = ""

\* no content entry is being saved
DetailIdle ==
    /\ editingField = [open |-> FALSE, path |-> <<>>,
                       value |-> [t |-> "undefined", v |-> <<>>, ent |-> <<>>, el |-> <<>>]]
    /\ saving = FALSE
    /\ serverData = [t |-> "undefined", v |-> <<>>, ent |-> <<>>, el |-> <<>>]
    /\ writes = <<>>
    /\ timers = 0
    /\ fetching = 0
    /\ refreshes = 0

\* no field editor is open
FieldEditorIdle ==
    /\ fieldType = "none"
    /\ editContent = <<>>
    /\ parsedValue = [t |-> "null", v |-> <<>>, ent |-> <<>>, el |-> <<>>]
    /\ saved = <<>>
    /\ mounted = FALSE

\* no file is being imported
ImportIdle ==
    /\ importKind = "none"
    /\ importFile = [t |-> "undefined", v |-> <<>>, ent |-> <<>>, el |-> <<>>]
    /\ importPhase = "idle"
    /\ importIndex = 0
    /\ successCount = 0
    /\ errorCount = 0
    /\ importing = FALSE
    /\ attempts = <<>>
    /\ created = <<>>
    /\ reloads = 0

LaterIdle ==
    /\ ModalIdle
    /\ EditorIdle
    /\ MessagesIdle
    /\ DetailIdle
    /\ FieldEditorIdle
    /\ ImportIdle

\* what the actions of the modal leave alone
ModalFrame ==
    <<mutVars, walkVars, diffVars, editorVars, msgVars, detailVars, fieldEditorVars,
      importVars>>

\* what the actions of the model editor leave alone
EditorOthers == <<mutVars, walkVars, diffVars, detailVars, fieldEditorVars, importVars>>

\* leftContent.data and rightContent.data: the entries selected first and
\* second
left == contentList[selectedForComparison[1]]
right == contentList[selectedForComparison[2]]

-----------------------------------------------------------------------------
(* Bounds of the enumerated inputs.                                        *)

\* most nodes (containers and leaves, the root included) of an input tree
MaxNodes == 4
\* most nodes of a content entry shown by the walker
MaxShown == 4
\* most nodes of the two entries of a comparison together
DiffMaxNodes == 5
\* most nodes of an entry that is compared with a reordering of itself
SameDataMaxNodes == 5
\* the entries of the content list when entries are selected for comparison
ListLength == 3
\* most characters typed into a confirmation
MaxTyped == 3
\* most operations started through confirmations
MaxStarted == 2

-----------------------------------------------------------------------------
(* Strings.                                                                *)

S1(c) == <<c>>

DigitChars == {"0", "1", "2", "3", "4", "5", "6", "7", "8", "9"}

DigitVal(c) ==
    CASE c = "0" -> 0 [] c = "1" -> 1 [] c = "2" -> 2 [] c = "3" -> 3
      [] c = "4" -> 4 [] c = "5" -> 5 [] c = "6" -> 6 [] c = "7" -> 7
      [] c = "8" -> 8 [] c = "9" -> 9

DigitChar(d) ==
    CASE d = 0 -> "0" [] d = 1 -> "1" [] d = 2 -> "2" [] d = 3 -> "3"
      [] d = 4 -> "4" [] d = 5 -> "5" [] d = 6 -> "6" [] d = 7 -> "7"
      [] d = 8 -> "8" [] d = 9 -> "9"

\* String(n) for an integer n
RECURSIVE NatToChars(_)
NatToChars(n) ==
    IF n < 10 THEN <<DigitChar(n)>>
    ELSE Append(NatToChars(n \div 10), DigitChar(n % 10))

NumToChars(n) == IF n < 0 THEN <<"-">> \o NatToChars(0 - n) ELSE NatToChars(n)

\* s.replace(/[\[\]]/g, '')
StripBrackets(s) == SelectSeq(s, LAMBDA c : c \notin {"[", "]"})

RECURSIVE DigitsPrefix(_)
DigitsPrefix(s) ==
    IF s = <<>> \/ Head(s) \notin DigitChars THEN <<>>
    ELSE <<Head(s)>> \o DigitsPrefix(Tail(s))

RECURSIVE DecValue(_, _)
DecValue(ds, acc) ==
    IF ds = <<>> THEN acc ELSE DecValue(Tail(ds), 10 * acc + DigitVal(Head(ds)))

RECURSIVE SkipSpace(_)
SkipSpace(s) == IF s # <<>> /\ Head(s) = " " THEN SkipSpace(Tail(s)) ELSE s

NaN == [nan |-> TRUE, n |-> 0]

parseIntFromDigits(s) ==
    LET ds == DigitsPrefix(s)
    IN  IF ds = <<>> THEN NaN ELSE [nan |-> FALSE, n |-> DecValue(ds, 0)]

\* parseInt(s, 10): leading blanks, an optional sign, the longest run of digits
parseInt(s) ==
    LET t == SkipSpace(s)
        neg == t # <<>> /\ Head(t) = "-"
        u == IF t # <<>> /\ Head(t) \in {"-", "+"} THEN Tail(t) ELSE t
        p == parseIntFromDigits(u)
    IN  IF p.nan THEN NaN ELSE [nan |-> FALSE, n |-> IF neg THEN 0 - p.n ELSE p.n]

\* the property key a number turns into when used as newArray[index]
IndexKey(index) == IF index.nan THEN <<"N", "a", "N">> ELSE NumToChars(index.n)

UndefinedKey == <<"u", "n", "d", "e", "f", "i", "n", "e", "d">>

-----------------------------------------------------------------------------
(* JavaScript values and the heap.                                         *)

Undefined == [t |-> "undefined", v |-> <<>>, a |-> 0]
Null == [t |-> "null", v |-> <<>>, a |-> 0]
Hole == [t |-> "hole", v |-> <<>>, a |-> 0]
Num(s) == [t |-> "num", v |-> s, a |-> 0]
Str(s) == [t |-> "str", v |-> s, a |-> 0]
Bool(b) == [t |-> "bool", v |-> IF b THEN <<"t", "r", "u", "e">> ELSE <<"f", "a", "l", "s", "e">>, a |-> 0]
Ref(a) == [t |-> "ref", v |-> <<>>, a |-> a]

\* a cell is an object (ent: its own properties in order) or an array
\* (el: the elements, ent: its properties that are not indices)
ObjCell(ent) == [kind |-> "obj", ent |-> ent, el |-> <<>>]
ArrCell(el, ent) == [kind |-> "arr", ent |-> ent, el |-> el]

Alloc(h, cell) == [h |-> Append(h, cell), a |-> Len(h) + 1]

\* Array.isArray(data)
IsArray(h, data) == data.t = "ref" /\ h[data.a].kind = "arr"

HasKey(ent, k) == \E i \in 1..Len(ent) : ent[i].k = k

Lookup(ent, k) ==
    IF HasKey(ent, k)
    THEN ent[CHOOSE i \in 1..Len(ent) : ent[i].k = k].v
    ELSE Undefined

KeysOf(ent) == [i \in 1..Len(ent) |-> ent[i].k]

\* obj[k] = v on an ordinary object: an existing key keeps its place,
\* a new key goes last
PutKey(ent, k, v) ==
    IF HasKey(ent, k)
    THEN [i \in 1..Len(ent) |-> IF ent[i].k = k THEN [k |-> k, v |-> v] ELSE ent[i]]
    ELSE Append(ent, [k |-> k, v |-> v])

\* [...data]: the elements by index, a hole read as undefined; properties
\* that are not indices are not copied
SpreadArray(h, data) ==
    LET el == h[data.a].el
    IN  [i \in 1..Len(el) |-> IF el[i].t = "hole" THEN Undefined ELSE el[i]]

\* {...data} for data that is no array: the own properties of an object,
\* the characters of a string, nothing for the other primitives
SpreadObject(h, data) ==
    CASE data.t = "ref" -> h[data.a].ent
      [] data.t = "str" ->
            [i \in 1..Len(data.v) |-> [k |-> NatToChars(i - 1), v |-> Str(S1(data.v[i]))]]
      [] OTHER -> <<>>

\* newArray[index] = value
StoreIndex(cell, index, value) ==
    IF index.nan \/ index.n < 0
    THEN [cell EXCEPT !.ent = PutKey(cell.ent, IndexKey(index), value)]
    ELSE IF index.n < Len(cell.el)
    THEN [cell EXCEPT !.el[index.n + 1] = value]
    ELSE [cell EXCEPT !.el = cell.el
                              \o [i \in 1..(index.n - Len(cell.el)) |-> Hole]
                              \o <<value>>]

\* data[index] on an array
LoadIndex(h, data, index) ==
    LET cell == h[data.a]
    IN  IF index.nan \/ index.n < 0 THEN Lookup(cell.ent, IndexKey(index))
        ELSE IF index.n < Len(cell.el)
        THEN (IF cell.el[index.n + 1].t = "hole" THEN Undefined
              ELSE cell.el[index.n + 1])
        ELSE Undefined

IsIndexString(k) == k # <<>> /\ \A i \in 1..Len(k) : k[i] \in DigitChars

\* data[key] on a value that is no array; null and undefined have no
\* properties to read (the caller throws)
LoadKey(h, data, key) ==
    CASE data.t = "ref" -> Lookup(h[data.a].ent, key)
      [] data.t = "str" ->
            IF IsIndexString(key) /\ NatToChars(DecValue(key, 0)) = key
               /\ DecValue(key, 0) < Len(data.v)
            THEN Str(S1(data.v[DecValue(key, 0) + 1]))
            ELSE Undefined
      [] OTHER -> Undefined

Nullish(data) == data.t \in {"null", "undefined"}

-----------------------------------------------------------------------------
(* The path-scoped mutator.                                                *)

Returned(h, r) == [h |-> h, r |-> r, err |-> "none"]
Thrown(h, e) == [h |-> h, r |-> Undefined, err |-> e]

\* a guard that also takes the empty path for a last segment
IsLastSegmentOrEmpty(p) == Len(p) <= 1

\* path.length === 1
IsLastSegment(p) == Len(p) = 1

\* const newArray = [...data]
CopyArray(h, data) == Alloc(h, ArrCell(SpreadArray(h, data), <<>>))

\* no copy: the write that follows lands in the caller's object
CopyObjectInPlace(h, data) ==
    IF data.t = "ref" THEN [h |-> h, a |-> data.a]
    ELSE Alloc(h, ObjCell(SpreadObject(h, data)))

\* an object literal without the spread
CopyObjectNoSpread(h, data) == Alloc(h, ObjCell(<<>>))

\* the object literal { ...data, ... } before its computed key is set
CopyObject(h, data) == Alloc(h, ObjCell(SpreadObject(h, data)))

\* parseInt of the segment with its brackets left in
SegmentIndexKeepBrackets(seg) == parseInt(seg)

\* parseInt(segment.replace(/[\[\]]/g, ''), 10)
SegmentIndex(seg) == parseInt(StripBrackets(seg))

\* an assignment that ignores an index outside the array
SetIndexInRangeOnly(h, a, index, value) ==
    IF ~index.nan /\ index.n >= 0 /\ index.n < Len(h[a].el)
    THEN [h EXCEPT ![a] = StoreIndex(h[a], index, value)]
    ELSE h

\* newArray[index] = value, on the cell at address a
SetIndex(h, a, index, value) == [h EXCEPT ![a] = StoreIndex(h[a], index, value)]

\* the computed key [key]: value of the object literal at address a
SetKey(h, a, key, value) == [h EXCEPT ![a].ent = PutKey(h[a].ent, key, value)]

RECURSIVE updateDataAtPath(_, _, _, _)
updateDataAtPath(h, data, p, value) ==
    \* path[0], and const [current, ...rest] = path: both undefined for []
    LET hasCurrent == p # <<>>
        key == IF hasCurrent THEN Head(p) ELSE UndefinedKey
        rest == IF hasCurrent THEN Tail(p) ELSE <<>>
    IN  IF IsLastSegment(p)
        THEN IF IsArray(h, data)
             THEN IF ~hasCurrent
                  THEN Thrown(h, "TypeError")     \* undefined.replace
                  ELSE LET index == SegmentIndex(Head(p))
                           na == CopyArray(h, data)
                       IN  Returned(SetIndex(na.h, na.a, index, value), Ref(na.a))
             ELSE LET no == CopyObject(h, data)
                  IN  Returned(SetKey(no.h, no.a, key, value), Ref(no.a))
        ELSE IF IsArray(h, data)
             THEN IF ~hasCurrent
                  THEN Thrown(h, "TypeError")     \* undefined.replace
                  ELSE LET index == SegmentIndex(Head(p))
                           na == CopyArray(h, data)
                           rec == updateDataAtPath(na.h, LoadIndex(h, data, index),
                                                   rest, value)
                       IN  IF rec.err # "none" THEN rec
                           ELSE Returned(SetIndex(rec.h, na.a, index, rec.r), Ref(na.a))
             ELSE LET no == CopyObject(h, data)
                  IN  IF Nullish(data)
                      THEN Thrown(no.h, "TypeError")   \* data[current] of null
                      ELSE LET rec == updateDataAtPath(no.h, LoadKey(h, data, key),
                                                       rest, value)
                           IN  IF rec.err # "none" THEN rec
                               ELSE Returned(SetKey(rec.h, no.a, key, rec.r), Ref(no.a))

-----------------------------------------------------------------------------
(* Trees: the deep value of a JavaScript value, used for the inputs and    *)
(* for deep equality.                                                      *)

TLeaf(val) == [t |-> val.t, v |-> val.v, ent |-> <<>>, el |-> <<>>]
TObj(ent) == [t |-> "obj", v |-> <<>>, ent |-> ent, el |-> <<>>]
TArr(el, ent) == [t |-> "arr", v |-> <<>>, ent |-> ent, el |-> el]

IsContainer(tree) == tree.t \in {"obj", "arr"}

\* the deep value reachable from val in heap h
RECURSIVE Deref(_, _)
Deref(h, val) ==
    IF val.t # "ref" THEN TLeaf(val)
    ELSE LET cell == h[val.a]
             ent == [i \in 1..Len(cell.ent) |->
                        [k |-> cell.ent[i].k, v |-> Deref(h, cell.ent[i].v)]]
             el == [i \in 1..Len(cell.el) |-> Deref(h, cell.el[i])]
         IN  IF cell.kind = "arr" THEN TArr(el, ent) ELSE TObj(ent)

\* JSON.parse of the tree into heap h: children first, then the container
RECURSIVE Build(_, _)
RECURSIVE BuildAll(_, _, _)
BuildAll(h, trees, done) ==
    IF trees = <<>> THEN [h |-> h, rs |-> done]
    ELSE LET b == Build(h, Head(trees))
         IN  BuildAll(b.h, Tail(trees), Append(done, b.r))

Build(h, tree) ==
    IF ~IsContainer(tree) THEN [h |-> h, r |-> [t |-> tree.t, v |-> tree.v, a |-> 0]]
    ELSE LET vs == BuildAll(h, [i \in 1..Len(tree.ent) |-> tree.ent[i].v], <<>>)
             es == BuildAll(vs.h, tree.el, <<>>)
             ent == [i \in 1..Len(tree.ent) |-> [k |-> tree.ent[i].k, v |-> vs.rs[i]]]
             cell == IF tree.t = "arr" THEN ArrCell(es.rs, ent) ELSE ObjCell(ent)
             na == Alloc(es.h, cell)
         IN  [h |-> na.h, r |-> Ref(na.a)]

-----------------------------------------------------------------------------
(* The enumerated inputs.                                                  *)

Keys == {S1("a"), S1("b")}

Leaves == {TLeaf(Null), TLeaf(Num(S1("1"))), TLeaf(Str(S1("x")))}

\* sequences of n distinct keys of K
KeySeqs(n, K) == {ks \in [1..n -> K] : \A i, j \in 1..n : i # j => ks[i] # ks[j]}

RECURSIVE TreesOfSize(_, _, _)
RECURSIVE ForestsOfSize(_, _, _, _)
\* the sequences of at most k trees with n nodes in all
ForestsOfSize(n, k, K, L) ==
    IF n = 0 THEN {<<>>}
    ELSE IF k = 0 THEN {}
    ELSE UNION {{<<tr>> \o f : tr \in TreesOfSize(m, K, L),
                               f \in ForestsOfSize(n - m, k - 1, K, L)}
                  : m \in 1..n}

ObjectsOfSize(n, K, L) ==
    UNION {{TObj([i \in 1..Len(f) |-> [k |-> ks[i], v |-> f[i]]]) : ks \in KeySeqs(Len(f), K)}
             : f \in ForestsOfSize(n - 1, Cardinality(K), K, L)}

ArraysOfSize(n, K, L) == {TArr(f, <<>>) : f \in ForestsOfSize(n - 1, n, K, L)}

\* the JSON trees with exactly n nodes, keys from K and scalars from L
TreesOfSize(n, K, L) ==
    IF n < 1 THEN {}
    ELSE (IF n = 1 THEN L ELSE {}) \cup ObjectsOfSize(n, K, L) \cup ArraysOfSize(n, K, L)

\* content.data is a JSON object
Roots == UNION {ObjectsOfSize(n, Keys, Leaves) : n \in 1..MaxNodes}

IndexSegment(i) == <<"[">> \o NatToChars(i) \o <<"]">>

Segments == Keys \cup {IndexSegment(0), IndexSegment(1)}

NewValues == {Num(S1("9")), Null}

Paths ==
    {<<>>} \cup {<<s>> : s \in Segments} \cup {<<s, u>> : s \in Segments, u \in Segments}
      \cup {<<s, u, w>> : s \in Segments, u \in Segments, w \in Segments}

NoResult == [h |-> <<>>, r |-> Undefined, err |-> "pending"]

-----------------------------------------------------------------------------
(* The mutator on every input: a root is loaded, a path is built segment   *)
(* by segment, and updateDataAtPath is called once.                        *)

DifferIdle ==
    /\ contentList = <<TObj(<<>>), TObj(<<>>)>>
    /\ comparisonMode = FALSE
    /\ selectedForComparison = <<>>
    /\ showComparison = FALSE
    /\ diffs = <<>>
    /\ expandedPaths = {}

WalkerIdle ==
    /\ content = TObj(<<>>)
    /\ fields = <<>>
    /\ expanded = {}
    /\ jsonData = TObj(<<>>)
    /\ currentView = "none"
    /\ rendered = <<>>

MutInit ==
    /\ \E tree \in Roots :
         LET b == Build(<<>>, tree)
         IN  /\ heap = b.h
             /\ root = b.r
             /\ snapshot = tree
    /\ path = <<>>
    /\ newValue \in NewValues
    /\ result = NoResult
    /\ pc = "edit"
    /\ WalkerIdle
    /\ DifferIdle
    /\ LaterIdle

\* the next segment of editingField.path
AddSegment ==
    /\ pc = "edit"
    /\ \E s \in Segments :
         /\ Append(path, s) \in Paths
         /\ path' = Append(path, s)
    /\ UNCHANGED <<heap, root, newValue, result, snapshot, pc, walkVars, diffVars, laterVars>>

\* updateDataAtPath(content.data, editingField.path, newValue)
CallUpdate ==
    /\ pc = "edit"
    /\ LET out == updateDataAtPath(heap, root, path, newValue)
       IN  /\ heap' = out.h
           /\ result' = [out EXCEPT !.h = <<>>]
    /\ pc' = "done"
    /\ UNCHANGED <<root, path, newValue, snapshot, walkVars, diffVars, laterVars>>

MutNext == AddSegment \/ CallUpdate

MutatorSpec == MutInit /\ [][MutNext]_vars

-----------------------------------------------------------------------------
(* Reading a tree at a path, for the statements about the mutator.         *)

Absent == [t |-> "absent", v |-> <<>>, ent |-> <<>>, el |-> <<>>]

TreeLookup(ent, k) ==
    IF HasKey(ent, k) THEN ent[CHOOSE i \in 1..Len(ent) : ent[i].k = k].v ELSE Absent

IsIndexSegmentBelow(seg, n) == \E i \in 0..(n - 1) : seg = IndexSegment(i)

\* the child a segment addresses: a key of a mapping, [i] in a sequence
TreeChild(tree, seg) ==
    CASE tree.t = "obj" -> TreeLookup(tree.ent, seg)
      [] tree.t = "arr" ->
            IF IsIndexSegmentBelow(seg, Len(tree.el))
            THEN tree.el[1 + CHOOSE i \in 0..(Len(tree.el) - 1) : seg = IndexSegment(i)]
            ELSE Absent
      [] OTHER -> Absent

RECURSIVE TreeAt(_, _)
TreeAt(tree, p) == IF p = <<>> THEN tree ELSE TreeAt(TreeChild(tree, Head(p)), Tail(p))

\* every path to a node of the tree, the empty path to the tree included
RECURSIVE PathsOf(_)
PathsOf(tree) ==
    {<<>>}
      \cup UNION {{<<tree.ent[i].k>> \o q : q \in PathsOf(tree.ent[i].v)}
                    : i \in 1..(IF tree.t = "obj" THEN Len(tree.ent) ELSE 0)}
      \cup UNION {{<<IndexSegment(i - 1)>> \o q : q \in PathsOf(tree.el[i])}
                    : i \in 1..(IF tree.t = "arr" THEN Len(tree.el) ELSE 0)}

IsPrefix(q, p) == Len(q) <= Len(p) /\ SubSeq(p, 1, Len(q)) = q

Front(p) == SubSeq(p, 1, Len(p) - 1)
Last(p) == p[Len(p)]

\* a non-empty path to an existing node of the root before the call
ValidPath == path # <<>> /\ TreeAt(snapshot, path) # Absent

Done == pc = "done"
Succeeded == Done /\ result.err = "none"
ResultTree == Deref(heap, result.r)

Shape(tree) == [t |-> tree.t, keys |-> KeysOf(tree.ent), len |-> Len(tree.el)]

-----------------------------------------------------------------------------
(* C1-C7: the path-scoped mutator.                                         *)

\* C1: after updateDataAtPath has run, whether it returned or threw, the
\* root and every container reachable from it are deep-equal to the
\* snapshot taken before the call.
C1_MutatorPurity == Done => Deref(heap, root) = snapshot

\* an edit three segments deep has returned a tree that differs from the input
C1_Witness ==
    /\ Succeeded /\ ValidPath /\ Len(path) = 3
    /\ ResultTree # snapshot
    /\ Deref(heap, root) = snapshot

\* C2: for a path to an existing node of root, reading the returned tree at
\* the same path yields the new value.
C2_RoundTrip ==
    (Done /\ ValidPath) => (Succeeded /\ TreeAt(ResultTree, path) = TLeaf(newValue))

\* an element of a sequence nested in the root has been replaced
C2_Witness ==
    /\ Succeeded /\ ValidPath /\ Len(path) >= 2
    /\ TreeAt(snapshot, Front(path)).t = "arr"
    /\ TreeAt(snapshot, path) # TLeaf(newValue)
    /\ TreeAt(ResultTree, path) = TLeaf(newValue)

\* C3: for a path p to an existing node, every node of root at a path q that
\* is neither a prefix of p nor below p has the same value in the result,
\* and every container on the way to p keeps its keys, their order and its
\* length.
C3_SiblingPreservation ==
    (Done /\ ValidPath) =>
        /\ Succeeded
        /\ \A q \in PathsOf(snapshot) :
             /\ (~IsPrefix(q, path) /\ ~IsPrefix(path, q))
                    => TreeAt(ResultTree, q) = TreeAt(snapshot, q)
             /\ (IsPrefix(q, path) /\ q # path)
                    => Shape(TreeAt(ResultTree, q)) = Shape(TreeAt(snapshot, q))

\* a nested edit whose target has a sibling that the result still holds
C3_Witness ==
    /\ Succeeded /\ ValidPath /\ Len(path) >= 2
    /\ TreeAt(ResultTree, path) # TreeAt(snapshot, path)
    /\ \E q \in PathsOf(snapshot) :
         /\ Len(q) = Len(path) /\ q # path /\ Front(q) = Front(path)
         /\ TreeAt(ResultTree, q) = TreeAt(snapshot, q)

LastOnSequence ==
    /\ Len(path) >= 2
    /\ TreeAt(snapshot, Front(path)).t = "arr"
    /\ \E i \in 0..MaxNodes : Last(path) = IndexSegment(i)

LastIndex == CHOOSE i \in 0..MaxNodes : Last(path) = IndexSegment(i)
OldSequence == TreeAt(snapshot, Front(path)).el
NewSequence == TreeAt(ResultTree, Front(path)).el

\* C5 as stated: an index at or past the end of the sequence fails with
\* InvalidPathError, and a successful result keeps the sequence's length.
C5_InPlaceReplacementOnly ==
    (Done /\ LastOnSequence) =>
        /\ (LastIndex >= Len(OldSequence)) => result.err = "InvalidPathError"
        /\ Succeeded => Len(NewSequence) = Len(OldSequence)

\* C5 amended: the call always succeeds; an index inside the sequence
\* replaces that element and keeps the length, an index at or past the end
\* grows the sequence to index + 1 elements, with the new value last and
\* holes between the old end and it; the old elements are kept.
C5_IndexWriteGrows ==
    (Done /\ LastOnSequence) =>
        /\ Succeeded
        /\ Len(NewSequence) = (IF LastIndex < Len(OldSequence)
                               THEN Len(OldSequence) ELSE LastIndex + 1)
        /\ NewSequence[LastIndex + 1] = TLeaf(newValue)
        /\ \A j \in 1..Len(OldSequence) :
                j # LastIndex + 1 => NewSequence[j] = OldSequence[j]
        /\ \A j \in (Len(OldSequence) + 1)..LastIndex : NewSequence[j] = TLeaf(Hole)
        /\ TreeAt(ResultTree, Front(path)).ent = <<>>

\* a write to index 1 of an empty sequence has left a hole at index 0
C5_Witness ==
    /\ Succeeded /\ LastOnSequence
    /\ OldSequence = <<>> /\ LastIndex = 1
    /\ NewSequence = <<TLeaf(Hole), TLeaf(newValue)>>

\* the segments before position k lead to a sequence of the root and
\* segment k, stripped of brackets, is no run of digits
NonIntegerOnSequence(k) ==
    /\ k \in 1..Len(path)
    /\ TreeAt(snapshot, SubSeq(path, 1, k - 1)).t = "arr"
    /\ ~IsIndexString(StripBrackets(path[k]))

\* C6: a segment applied to a sequence that is not convertible to a
\* non-negative integer makes the call fail with InvalidPathError.
C6_NonIntegerIndexRejected ==
    (Done /\ \E k \in 1..Len(path) : NonIntegerOnSequence(k))
        => result.err = "InvalidPathError"

\* the segments up to position k < Len(path) lead to a scalar of the root,
\* or to nothing
DescentThroughScalar(k) ==
    /\ k \in 1..(Len(path) - 1)
    /\ IsContainer(TreeAt(snapshot, SubSeq(path, 1, k - 1)))
    /\ ~IsContainer(TreeAt(snapshot, SubSeq(path, 1, k)))
    /\ ~NonIntegerOnSequence(k)

\* C7: a non-final segment that reaches a scalar or an absent value makes
\* the call fail with InvalidPathError.
C7_ScalarDescentRejected ==
    (Done /\ \E k \in 1..Len(path) : DescentThroughScalar(k))
        => result.err = "InvalidPathError"

-----------------------------------------------------------------------------
(* The walker: the rows ContentDetail renders for content.data under       *)
(* model.fields, and normalizeFieldOrder.                                  *)

NoFieldDef ==
    [present |-> FALSE, name |-> <<>>, type |-> "none", hasSub |-> FALSE, subFields |-> <<>>]

\* a field definition without subFields
PlainField(n) ==
    [present |-> TRUE, name |-> n, type |-> "string", hasSub |-> FALSE, subFields |-> <<>>]

\* a field definition of type object with its subFields
ObjectField(n, subs) ==
    [present |-> TRUE, name |-> n, type |-> "object", hasSub |-> TRUE, subFields |-> subs]

\* fs.some(f => f.name === key)
SomeNamed(fs, key) == \E i \in 1..Len(fs) : fs[i].name = key

\* fs.find(f => f.name === key)
FindNamed(fs, key) ==
    IF SomeNamed(fs, key)
    THEN LET first == CHOOSE i \in 1..Len(fs) :
                         /\ fs[i].name = key
                         /\ \A j \in 1..(i - 1) : fs[j].name # key
         IN  fs[first]
    ELSE NoFieldDef

\* fieldDef?.subFields?.find(f => f.name === key)
SubFieldDef(fieldDef, key) ==
    IF fieldDef.present /\ fieldDef.hasSub THEN FindNamed(fieldDef.subFields, key)
    ELSE NoFieldDef

\* a name that counts the elements from one
ElementNameOneBased(index) == <<"[">> \o NatToChars(index + 1) \o <<"]">>

\* the fieldName of the row of element index: `[${index}]`
ElementName(index) == <<"[">> \o NatToChars(index) \o <<"]">>

RECURSIVE DataRow(_, _, _, _, _, _)
RECURSIVE ElementRows(_, _, _, _, _)
RECURSIVE EntryRows(_, _, _, _, _, _)
RECURSIVE EntryRowsReversed(_, _, _, _, _, _)

\* fieldValue.map((item, index) => <DataRow .../>), from element i on
ElementRows(el, i, depth, p, exp) ==
    IF i > Len(el) THEN <<>>
    ELSE DataRow(ElementName(i - 1), el[i], NoFieldDef, depth, p, exp)
           \o ElementRows(el, i + 1, depth, p, exp)

\* a rendering of the entries that puts each row before the ones rendered so far
EntryRowsReversed(ent, i, fieldDef, depth, p, exp) ==
    IF i > Len(ent) THEN <<>>
    ELSE EntryRowsReversed(ent, i + 1, fieldDef, depth, p, exp)
           \o DataRow(ent[i].k, ent[i].v, SubFieldDef(fieldDef, ent[i].k), depth, p, exp)

\* Object.entries(fieldValue).map(([key, value]) => <DataRow .../>), from
\* entry i on
EntryRows(ent, i, fieldDef, depth, p, exp) ==
    IF i > Len(ent) THEN <<>>
    ELSE DataRow(ent[i].k, ent[i].v, SubFieldDef(fieldDef, ent[i].k), depth, p, exp)
           \o EntryRows(ent, i + 1, fieldDef, depth, p, exp)

\* the rows one DataRow renders: its own, then its children when it is an
\* expanded branch
DataRow(fieldName, fieldValue, fieldDef, depth, p, exp) ==
    LET hasChildren == fieldValue.t = "obj"
        isArray == fieldValue.t = "arr"
        currentPath == Append(p, fieldName)
        isExpanded == currentPath \in exp
        row == [path |-> currentPath, fieldName |-> fieldName, value |-> fieldValue,
                fieldDef |-> fieldDef, depth |-> depth,
                branch |-> hasChildren \/ isArray]
    IN  <<row>> \o
        (IF (hasChildren \/ isArray) /\ isExpanded
         THEN IF isArray THEN ElementRows(fieldValue.el, 1, depth + 1, currentPath, exp)
              ELSE EntryRows(fieldValue.ent, 1, fieldDef, depth + 1, currentPath, exp)
         ELSE <<>>)

\* model.fields.map(fieldDef => key in content.data ? <DataRow/> : null),
\* from field i on
RECURSIVE ModelFieldRows(_, _, _, _)
ModelFieldRows(data, fs, i, exp) ==
    IF i > Len(fs) THEN <<>>
    ELSE (IF HasKey(data.ent, fs[i].name)
          THEN DataRow(fs[i].name, TreeLookup(data.ent, fs[i].name), fs[i], 0, <<>>, exp)
          ELSE <<>>)
           \o ModelFieldRows(data, fs, i + 1, exp)

\* Object.entries(content.data).filter(([key]) => !model.fields.some(...))
\*   .map(([key, value]) => <DataRow fieldDef={undefined}/>), from entry i on
RECURSIVE ExtraFieldRows(_, _, _, _)
ExtraFieldRows(data, fs, i, exp) ==
    IF i > Len(data.ent) THEN <<>>
    ELSE (IF ~SomeNamed(fs, data.ent[i].k)
          THEN DataRow(data.ent[i].k, data.ent[i].v, NoFieldDef, 0, <<>>, exp)
          ELSE <<>>)
           \o ExtraFieldRows(data, fs, i + 1, exp)

\* the earlier root rendering: every entry of content.data in its own order
RECURSIVE DataOrderRows(_, _, _, _)
DataOrderRows(data, fs, i, exp) ==
    IF i > Len(data.ent) THEN <<>>
    ELSE DataRow(data.ent[i].k, data.ent[i].v, FindNamed(fs, data.ent[i].k), 0, <<>>, exp)
           \o DataOrderRows(data, fs, i + 1, exp)

FieldListDataOrder(data, fs, exp) == DataOrderRows(data, fs, 1, exp)

\* the rows of the field list of ContentDetail
FieldList(data, fs, exp) ==
    ModelFieldRows(data, fs, 1, exp) \o ExtraFieldRows(data, fs, 1, exp)

\* the first loop of normalizeFieldOrder, from field i on
RECURSIVE AddModelFields(_, _, _, _)
AddModelFields(normalized, data, fs, i) ==
    IF i > Len(fs) THEN normalized
    ELSE AddModelFields(
            IF HasKey(data.ent, fs[i].name)
            THEN PutKey(normalized, fs[i].name, TreeLookup(data.ent, fs[i].name))
            ELSE normalized,
            data, fs, i + 1)

\* the second loop of normalizeFieldOrder, from key i of data on
RECURSIVE AddExtraFields(_, _, _, _)
AddExtraFields(normalized, data, fs, i) ==
    IF i > Len(data.ent) THEN normalized
    ELSE AddExtraFields(
            IF ~(data.ent[i].k \in {fs[j].name : j \in 1..Len(fs)})
            THEN PutKey(normalized, data.ent[i].k, data.ent[i].v)
            ELSE normalized,
            data, fs, i + 1)

\* a normalisation that keeps the fields of the model only
normalizeFieldOrderModelOnly(data, fs) == TObj(AddModelFields(<<>>, data, fs, 1))

normalizeFieldOrder(data, fs) ==
    TObj(AddExtraFields(AddModelFields(<<>>, data, fs, 1), data, fs, 1))

-----------------------------------------------------------------------------
(* The walker on every input: an entry and a model are shown in the        *)
(* detail view, rows are expanded and collapsed, the JSON editor is        *)
(* opened and left.                                                        *)

WalkerKeys == {S1("a"), S1("b"), S1("x")}
FieldNames == {S1("a"), S1("b"), S1("c")}
WalkerLeaves == {TLeaf(Num(S1("1")))}

\* every container below the root of the tree has a child
RECURSIVE NoEmptyBelow(_)
NoEmptyBelow(tree) ==
    /\ \A i \in 1..Len(tree.ent) :
         /\ IsContainer(tree.ent[i].v)
                => Len(tree.ent[i].v.ent) + Len(tree.ent[i].v.el) > 0
         /\ NoEmptyBelow(tree.ent[i].v)
    /\ \A i \in 1..Len(tree.el) :
         /\ IsContainer(tree.el[i]) => Len(tree.el[i].ent) + Len(tree.el[i].el) > 0
         /\ NoEmptyBelow(tree.el[i])

\* the entries shown: objects of at most MaxShown nodes; an empty container
\* below the root renders as a single row and is left out
WalkerData ==
    UNION {{d \in ObjectsOfSize(n, WalkerKeys, WalkerLeaves) : NoEmptyBelow(d)}
             : n \in 1..MaxShown}

\* the field named a is an object whose subFields list b before a; the
\* other fields have no subFields
FieldOf(n) ==
    IF n = S1("a") THEN ObjectField(n, <<PlainField(S1("b")), PlainField(S1("a"))>>)
    ELSE PlainField(n)

\* model.fields: distinct names, in any order
Models ==
    UNION {{[i \in 1..n |-> FieldOf(ns[i])] : ns \in KeySeqs(n, FieldNames)}
             : n \in 0..Cardinality(FieldNames)}

MutatorIdle ==
    /\ heap = <<>>
    /\ root = Undefined
    /\ path = <<>>
    /\ newValue = Undefined
    /\ result = NoResult
    /\ snapshot = TObj(<<>>)
    /\ pc = "off"

WalkInit ==
    /\ content \in WalkerData
    /\ fields \in Models
    /\ expanded = {}
    /\ jsonData = TObj(<<>>)
    /\ currentView = "detail"
    /\ rendered = FieldList(content, fields, {})
    /\ MutatorIdle
    /\ DifferIdle
    /\ LaterIdle

Rows == FieldList(content, fields, expanded)

\* a click that flips the row's flag and keeps the flags of the rows below
\* it, and a render that lays out the rows of the flags that result
ToggleRowKeepBelow ==
    /\ currentView = "detail"
    /\ LET rows == Rows
       IN  \E i \in 1..Len(rows) :
             /\ rows[i].branch
             /\ expanded' = IF rows[i].path \in expanded
                            THEN expanded \ {rows[i].path}
                            ELSE expanded \cup {rows[i].path}
    /\ rendered' = FieldList(content, fields, expanded')
    /\ UNCHANGED <<content, fields, jsonData, currentView, mutVars, diffVars, laterVars>>

\* a click after which the rows drawn before it stay on screen and the new
\* walk is drawn below them
ToggleRowAppending ==
    /\ currentView = "detail"
    /\ LET rows == Rows
       IN  \E i \in 1..Len(rows) :
             /\ rows[i].branch
             /\ expanded' = IF rows[i].path \in expanded
                            THEN {q \in expanded : ~IsPrefix(rows[i].path, q)}
                            ELSE expanded \cup {rows[i].path}
    /\ rendered' = IF Len(rendered) > Len(content.ent)
                   THEN rendered
                   ELSE rendered \o FieldList(content, fields, expanded')
    /\ UNCHANGED <<content, fields, jsonData, currentView, mutVars, diffVars, laterVars>>

\* handleRowClick on a branch row: setIsExpanded(!isExpanded); the rows
\* under a collapsed row unmount and lose their isExpanded; React renders
\* the rows again
ToggleRow ==
    /\ currentView = "detail"
    /\ LET rows == Rows
       IN  \E i \in 1..Len(rows) :
             /\ rows[i].branch
             /\ expanded' = IF rows[i].path \in expanded
                            THEN {q \in expanded : ~IsPrefix(rows[i].path, q)}
                            ELSE expanded \cup {rows[i].path}
    /\ rendered' = FieldList(content, fields, expanded')
    /\ UNCHANGED <<content, fields, jsonData, currentView, mutVars, diffVars, laterVars>>

\* onEdit: handleEditContent, then the effect of ContentJsonEditor
OpenJsonEditor ==
    /\ currentView = "detail"
    /\ currentView' = "edit"
    /\ jsonData' = normalizeFieldOrder(content, fields)
    /\ expanded' = {}
    /\ rendered' = <<>>
    /\ UNCHANGED <<content, fields, mutVars, diffVars, laterVars>>

\* onCancel of ContentJsonEditor: handleBackToList
CancelJsonEditor ==
    /\ currentView = "edit"
    /\ currentView' = "list"
    /\ jsonData' = TObj(<<>>)
    /\ UNCHANGED <<content, fields, expanded, rendered, mutVars, diffVars, laterVars>>

\* handleViewContent on the same entry
ViewContent ==
    /\ currentView = "list"
    /\ currentView' = "detail"
    /\ rendered' = FieldList(content, fields, expanded)
    /\ UNCHANGED <<content, fields, expanded, jsonData, mutVars, diffVars, laterVars>>

WalkNext == ToggleRow \/ OpenJsonEditor \/ CancelJsonEditor \/ ViewContent

WalkerSpec == WalkInit /\ [][WalkNext]_vars

-----------------------------------------------------------------------------
(* C8-C10: the order and the completeness of the rows.                     *)

NamesOf(fs) == [i \in 1..Len(fs) |-> fs[i].name]

RootRowsOf(rows) == SelectSeq(rows, LAMBDA r : r.depth = 0)

RowNames(rows) == [i \in 1..Len(rows) |-> rows[i].fieldName]

\* the names of seq that are (in = TRUE) or are not (in = FALSE) in names
Keep(seq, names, in) ==
    SelectSeq(seq, LAMBDA k : (\E i \in 1..Len(names) : names[i] = k) <=> in)

\* the names of the model that are keys of the data, in the model's order,
\* then the keys of the data the model does not name, in the data's order
SchemaFirst(names, keys) == Keep(names, keys, TRUE) \o Keep(keys, names, FALSE)

ChildRows(rows, p) ==
    SelectSeq(rows, LAMBDA r : Len(r.path) = Len(p) + 1 /\ Front(r.path) = p)

ExpandedMapping(r) == r.value.t = "obj" /\ r.path \in expanded

\* C9 as stated: under an expanded mapping row whose definition has
\* subFields the child rows are in subFields order, then the other keys;
\* without a definition they are in the data's key order.
C9_NestedRowsSubFieldOrder ==
    currentView = "detail" =>
        LET rows == Rows
        IN  \A i \in 1..Len(rows) :
                ExpandedMapping(rows[i]) =>
                    RowNames(ChildRows(rows, rows[i].path)) =
                        IF rows[i].fieldDef.present /\ rows[i].fieldDef.hasSub
                        THEN SchemaFirst(NamesOf(rows[i].fieldDef.subFields),
                                         KeysOf(rows[i].value.ent))
                        ELSE KeysOf(rows[i].value.ent)

\* C9 amended: the child rows of an expanded mapping row are always in the
\* data object's own key order, with or without subFields; subFields only
\* give each child row the definition of its name.
C9_NestedRowsDataOrder ==
    currentView = "detail" =>
        LET rows == Rows
        IN  \A i \in 1..Len(rows) :
                ExpandedMapping(rows[i]) =>
                    LET kids == ChildRows(rows, rows[i].path)
                    IN  /\ RowNames(kids) = KeysOf(rows[i].value.ent)
                        /\ \A j \in 1..Len(kids) :
                             kids[j].fieldDef =
                                 SubFieldDef(rows[i].fieldDef, kids[j].fieldName)

\* an expanded object {a, b} whose definition lists b before a shows a, b
C9_Witness ==
    /\ currentView = "detail"
    /\ LET rows == Rows
       IN  \E i \in 1..Len(rows) :
             /\ ExpandedMapping(rows[i])
             /\ rows[i].fieldDef.hasSub
             /\ NamesOf(rows[i].fieldDef.subFields) = <<S1("b"), S1("a")>>
             /\ RowNames(ChildRows(rows, rows[i].path)) = <<S1("a"), S1("b")>>

\* s holds every key of d exactly once, with the value it has in d, and
\* nothing else
SameEntries(s, d) ==
    /\ Len(s) = Len(d)
    /\ \A i \in 1..Len(d) :
         /\ Cardinality({j \in 1..Len(s) : s[j].k = d[i].k}) = 1
         /\ \A j \in 1..Len(s) : s[j].k = d[i].k => s[j].v = d[i].v

RowEntries(rows) == [i \in 1..Len(rows) |-> [k |-> rows[i].fieldName, v |-> rows[i].value]]

-----------------------------------------------------------------------------
(* C11-C12: expansion and determinism of the walker.                       *)

\* the rows on the way to the row at path p: its proper prefixes of one
\* segment or more
ProperAncestors(p) == {SubSeq(p, 1, n) : n \in 1..(Len(p) - 1)}

BranchPaths(rows) == {rows[i].path : i \in {j \in 1..Len(rows) : rows[j].branch}}

\* a rendered row has every ancestor expanded, and with nothing expanded the
\* rows are the root rows, one for each key of the data
ExpansionGating ==
    currentView = "detail" =>
        LET rows == Rows
        IN  /\ \A i \in 1..Len(rows) :
                 /\ rows[i].depth = Len(rows[i].path) - 1
                 /\ ProperAncestors(rows[i].path) \subseteq expanded
            /\ expanded = {} =>
                 /\ \A i \in 1..Len(rows) : rows[i].depth = 0
                 /\ Len(rows) = Len(content.ent)

\* a step of the detail view that changes the expanded flags
ToggleStep == currentView = "detail" /\ currentView' = "detail" /\ expanded' # expanded

\* C11 as stated: rows are rendered only under expanded ancestors, and a
\* click on a branch row changes the expanded flag of that row and of no
\* other row.
C11_ToggleOnlyThatFlag ==
    /\ []ExpansionGating
    /\ [][ToggleStep =>
            \E p \in expanded \cup expanded' :
                \/ p \notin expanded /\ expanded' = expanded \cup {p}
                \/ p \in expanded /\ expanded' = expanded \ {p}]_vars

\* C11 amended: rows are rendered only under expanded ancestors; every
\* expanded flag belongs to a rendered branch row; a click on a collapsed
\* branch row sets the flag of that row only, and a click on an expanded
\* branch row clears its flag together with the flags of all rows below it.
C11_CollapseDropsFlagsBelow ==
    /\ [](ExpansionGating
            /\ (currentView = "detail" => expanded \subseteq BranchPaths(Rows)))
    /\ [][ToggleStep =>
            \E p \in BranchPaths(Rows) :
                \/ p \notin expanded /\ expanded' = expanded \cup {p}
                \/ /\ p \in expanded
                   /\ expanded' = {q \in expanded : ~IsPrefix(p, q)}]_vars

\* a row three segments deep is on screen with both rows above it expanded
C11_Witness ==
    /\ currentView = "detail"
    /\ expanded = {<<S1("a")>>, <<S1("a"), S1("a")>>}
    /\ \E i \in 1..Len(rendered) :
         /\ rendered[i].path = <<S1("a"), S1("a"), S1("a")>>
         /\ rendered[i].depth = 2

-----------------------------------------------------------------------------
(* The structural differ: compareObjects of ContentComparison, over trees. *)

\* a member function an object inherits from Object.prototype
Function == [t |-> "function", v |-> <<>>, ent |-> <<>>, el |-> <<>>]

TUndefined == TLeaf(Undefined)

\* the names of Object.prototype among the keys of the inputs
ObjectPrototypeNames == {<<"v", "a", "l", "u", "e", "O", "f">>}

\* typeof value === 'object' of a truthy value
IsObjectLike(value) == value.t \in {"obj", "arr"}

\* the indices of a sequence that hold an element, as strings, from i on
RECURSIVE IndexKeys(_, _)
IndexKeys(el, i) ==
    IF i > Len(el) THEN <<>>
    ELSE (IF el[i].t = "hole" THEN <<>> ELSE <<NatToChars(i - 1)>>)
           \o IndexKeys(el, i + 1)

\* Object.keys(value)
ObjectKeys(value) ==
    IF value.t = "arr" THEN IndexKeys(value.el, 1) \o KeysOf(value.ent)
    ELSE KeysOf(value.ent)

\* value && typeof value === 'object' ? Object.keys(value) : []
KeysOrNone(value) == IF IsObjectLike(value) THEN ObjectKeys(value) ELSE <<>>

\* the members of a Set built from a sequence, in insertion order
RECURSIVE SetOrder(_, _)
SetOrder(seq, seen) ==
    IF seq = <<>> THEN <<>>
    ELSE IF Head(seq) \in seen THEN SetOrder(Tail(seq), seen)
    ELSE <<Head(seq)>> \o SetOrder(Tail(seq), seen \cup {Head(seq)})

\* the keys of the left value only
allKeysLeftOnly(l, r) == SetOrder(KeysOrNone(l), {})

\* the keys of the right value first
allKeysRightFirst(l, r) == SetOrder(KeysOrNone(r) \o KeysOrNone(l), {})

\* new Set([...leftKeys, ...rightKeys])
allKeys(l, r) == SetOrder(KeysOrNone(l) \o KeysOrNone(r), {})

\* path ? `${path}.${key}` : key
currentPath(p, key) == IF p # <<>> THEN p \o <<".">> \o key ELSE key

\* the element a canonical index string names, or nothing
ElementAt(el, key) ==
    IF IsIndexString(key) /\ NatToChars(DecValue(key, 0)) = key
       /\ DecValue(key, 0) < Len(el) /\ el[DecValue(key, 0) + 1].t # "hole"
    THEN el[DecValue(key, 0) + 1]
    ELSE Absent

\* value && key in value: an own property, or one found on the prototype
KeyIn(value, key) ==
    /\ IsObjectLike(value)
    /\ \/ HasKey(value.ent, key)
       \/ value.t = "arr" /\ ElementAt(value.el, key) # Absent
       \/ key \in ObjectPrototypeNames

\* value?.[key]
OptionalGet(value, key) ==
    IF ~IsObjectLike(value) THEN TUndefined
    ELSE IF HasKey(value.ent, key) THEN TreeLookup(value.ent, key)
    ELSE IF value.t = "arr" /\ ElementAt(value.el, key) # Absent
    THEN ElementAt(value.el, key)
    ELSE IF key \in ObjectPrototypeNames THEN Function
    ELSE TUndefined

\* the characters of a string between the quotes of its JSON text
RECURSIVE Escaped(_)
Escaped(str) ==
    IF str = <<>> THEN <<>>
    ELSE (IF Head(str) \in {"\"", "\\"} THEN <<"\\", Head(str)>> ELSE <<Head(str)>>)
           \o Escaped(Tail(str))

Quoted(str) == <<"\"">> \o Escaped(str) \o <<"\"">>

NoText == [defined |-> FALSE, s |-> <<>>]
Text(str) == [defined |-> TRUE, s |-> str]

\* JSON.stringify(value): no text for undefined and for a function; in a
\* sequence such an element is written null, in a mapping its key is left out
RECURSIVE stringify(_)
RECURSIVE stringifyElements(_, _)
RECURSIVE stringifyEntries(_, _, _)
stringifyElements(el, i) ==
    IF i > Len(el) THEN <<>>
    ELSE LET t == stringify(el[i])
         IN  (IF i > 1 THEN <<",">> ELSE <<>>)
               \o (IF t.defined THEN t.s ELSE <<"n", "u", "l", "l">>)
               \o stringifyElements(el, i + 1)

stringifyEntries(ent, i, first) ==
    IF i > Len(ent) THEN <<>>
    ELSE LET t == stringify(ent[i].v)
         IN  IF ~t.defined THEN stringifyEntries(ent, i + 1, first)
             ELSE (IF first THEN <<>> ELSE <<",">>)
                    \o Quoted(ent[i].k) \o <<":">> \o t.s
                    \o stringifyEntries(ent, i + 1, FALSE)

stringify(value) ==
    CASE value.t = "null" -> Text(<<"n", "u", "l", "l">>)
      [] value.t = "num" -> Text(value.v)
      [] value.t = "bool" -> Text(value.v)
      [] value.t = "str" -> Text(Quoted(value.v))
      [] value.t = "arr" -> Text(<<"[">> \o stringifyElements(value.el, 1) \o <<"]">>)
      [] value.t = "obj" -> Text(<<"{">> \o stringifyEntries(value.ent, 1, TRUE) \o <<"}">>)
      [] OTHER -> NoText

\* a DiffResult
DiffResult(p, leftValue, rightValue, type) ==
    [path |-> p, leftValue |-> leftValue, rightValue |-> rightValue, type |-> type]

\* leftVal !== null && typeof leftVal === 'object'
IsObj(val) == val.t \in {"obj", "arr"}

\* two sequences compared by their lengths alone
ArrayRowsByLength(cp, leftVal, rightVal) ==
    IF Len(leftVal.el) # Len(rightVal.el)
    THEN <<DiffResult(cp, leftVal, rightVal, "modified")>>
    ELSE <<DiffResult(cp, leftVal, rightVal, "equal")>>

\* both values are sequences: one row, modified when the JSON texts differ
ArrayRows(cp, leftVal, rightVal) ==
    IF stringify(leftVal) # stringify(rightVal)
    THEN <<DiffResult(cp, leftVal, rightVal, "modified")>>
    ELSE <<DiffResult(cp, leftVal, rightVal, "equal")>>

\* two values compared by their scalar parts alone, whatever their types
LeafRowsLoose(cp, leftVal, rightVal) ==
    LET isDifferent == leftVal.v # rightVal.v
    IN  <<DiffResult(cp, leftVal, rightVal, IF isDifferent THEN "modified" ELSE "equal")>>

\* every other pair of values: one row, typed by isDifferent
LeafRows(cp, leftVal, rightVal) ==
    LET isDifferent == stringify(leftVal) # stringify(rightVal)
    IN  <<DiffResult(cp, leftVal, rightVal, IF isDifferent THEN "modified" ELSE "equal")>>

\* the rows compareObjects(l, r, p) pushes to results, in order
RECURSIVE compareObjects(_, _, _)
RECURSIVE compareKeys(_, _, _, _, _)

\* two mappings compared by their JSON texts, as one row
MappingRowsSerialized(cp, leftVal, rightVal) == LeafRows(cp, leftVal, rightVal)

\* a row for the two mappings themselves, then the rows below them
MappingRowsWithContainerRow(cp, leftVal, rightVal) ==
    LeafRows(cp, leftVal, rightVal) \o compareObjects(leftVal, rightVal, cp)

\* both values are mappings: compareObjects(leftVal, rightVal, currentPath)
MappingRows(cp, leftVal, rightVal) == compareObjects(leftVal, rightVal, cp)

\* allKeys.forEach(key => ...), from key i on
compareKeys(l, r, p, keys, i) ==
    IF i > Len(keys) THEN <<>>
    ELSE LET key == keys[i]
             cp == currentPath(p, key)
             leftVal == OptionalGet(l, key)
             rightVal == OptionalGet(r, key)
             leftExists == KeyIn(l, key)
             rightExists == KeyIn(r, key)
             rows ==
                 IF ~leftExists /\ rightExists
                 THEN <<DiffResult(cp, TUndefined, rightVal, "added")>>
                 ELSE IF leftExists /\ ~rightExists
                 THEN <<DiffResult(cp, leftVal, TUndefined, "removed")>>
                 ELSE IF leftExists /\ rightExists
                 THEN IF IsObj(leftVal) /\ IsObj(rightVal)
                         /\ leftVal.t # "arr" /\ rightVal.t # "arr"
                      THEN MappingRows(cp, leftVal, rightVal)
                      ELSE IF leftVal.t = "arr" /\ rightVal.t = "arr"
                      THEN ArrayRows(cp, leftVal, rightVal)
                      ELSE LeafRows(cp, leftVal, rightVal)
                 ELSE <<>>
         IN  rows \o compareKeys(l, r, p, keys, i + 1)

compareObjects(l, r, p) == compareKeys(l, r, p, allKeys(l, r), 1)

-----------------------------------------------------------------------------
(* The differ on every input: two entries are selected, the comparison is  *)
(* shown, rows are expanded and collapsed, the comparison is closed.       *)

\* a plain key and a key that is also the name of a member of
\* Object.prototype; null, a number and the string of its digits
DiffKeys == {S1("a")} \cup ObjectPrototypeNames
DiffLeaves == {TLeaf(Null), TLeaf(Num(S1("1"))), TLeaf(Str(S1("1")))}
\* a plain key and a key that holds the separator of paths
SameDataKeys == {S1("a"), <<"a", ".", "a">>}
SameDataLeaves == {TLeaf(Num(S1("1")))}

\* the one-to-one maps of 1..n onto itself, for every n a container of the
\* inputs can have children
OrderingsOf ==
    [n \in 0..SameDataMaxNodes |->
        {f \in [1..n -> 1..n] : \A i, j \in 1..n : i # j => f[i] # f[j]}]

Orderings(n) == OrderingsOf[n]

\* the trees that hold the data of tree with the keys of its mappings and
\* the elements of its sequences in any order, at every depth
RECURSIVE Reorderings(_)
RECURSIVE ReorderingsOfEach(_, _)
\* the sequences that hold a reordering of trees[j] at every place j >= i
ReorderingsOfEach(trees, i) ==
    IF i > Len(trees) THEN {<<>>}
    ELSE {<<c>> \o rest : c \in Reorderings(trees[i]),
                          rest \in ReorderingsOfEach(trees, i + 1)}

Reorderings(tree) ==
    IF ~IsContainer(tree) THEN {tree}
    ELSE IF tree.t = "obj"
    THEN LET n == Len(tree.ent)
             kids == ReorderingsOfEach([i \in 1..n |-> tree.ent[i].v], 1)
         IN  {TObj([i \in 1..n |-> [k |-> tree.ent[f[i]].k, v |-> c[f[i]]]]) :
                 f \in Orderings(n), c \in kids}
    ELSE LET n == Len(tree.el)
             kids == ReorderingsOfEach(tree.el, 1)
         IN  {TArr([i \in 1..n |-> c[f[i]]], <<>>) : f \in Orderings(n), c \in kids}

DiffObjects(n) == ObjectsOfSize(n, DiffKeys, DiffLeaves)

\* two entries of at most DiffMaxNodes nodes together, the smaller first
AnyPair ==
    \E n \in 1..(DiffMaxNodes - 1) :
        \E m \in n..(DiffMaxNodes - n) :
            LET firsts == DiffObjects(n)
                seconds == DiffObjects(m)
            IN  \E l \in firsts :
                    \E r \in seconds :
                        contentList = <<l, r>>

\* an entry of at most SameDataMaxNodes nodes and a reordering of it
SameDataPair ==
    \E n \in 1..SameDataMaxNodes :
        LET firsts == ObjectsOfSize(n, SameDataKeys, SameDataLeaves)
        IN  \E l \in firsts :
                \E r \in Reorderings(l) :
                    contentList = <<l, r>>

DiffInit ==
    /\ AnyPair \/ SameDataPair
    /\ comparisonMode = FALSE
    /\ selectedForComparison = <<>>
    /\ showComparison = FALSE
    /\ diffs = <<>>
    /\ expandedPaths = {}
    /\ MutatorIdle
    /\ WalkerIdle
    /\ LaterIdle

\* the Compare Content button: comparison mode starts with nothing selected
EnterComparisonMode ==
    /\ ~comparisonMode
    /\ Len(contentList) >= 2
    /\ comparisonMode' = TRUE
    /\ selectedForComparison' = <<>>
    /\ UNCHANGED <<contentList, showComparison, diffs, expandedPaths, mutVars, walkVars, laterVars>>

\* the Cancel Comparison button
CancelComparisonMode ==
    /\ comparisonMode
    /\ ~showComparison
    /\ comparisonMode' = FALSE
    /\ selectedForComparison' = <<>>
    /\ UNCHANGED <<contentList, showComparison, diffs, expandedPaths, mutVars, walkVars, laterVars>>

\* a click that adds the entry whatever the size of the selection
SelectForComparisonUnbounded ==
    /\ comparisonMode
    /\ ~showComparison
    /\ \E id \in 1..Len(contentList) :
         selectedForComparison' =
             IF \E i \in 1..Len(selectedForComparison) : selectedForComparison[i] = id
             THEN SelectSeq(selectedForComparison, LAMBDA x : x # id)
             ELSE Append(selectedForComparison, id)
    /\ UNCHANGED <<contentList, comparisonMode, showComparison, diffs, expandedPaths,
                   mutVars, walkVars, laterVars>>

\* a click on the row of entry id in comparison mode: a selected entry is
\* taken out, another is added while fewer than two are selected
SelectForComparison ==
    /\ comparisonMode
    /\ ~showComparison
    /\ \E id \in 1..Len(contentList) :
         selectedForComparison' =
             IF \E i \in 1..Len(selectedForComparison) : selectedForComparison[i] = id
             THEN SelectSeq(selectedForComparison, LAMBDA x : x # id)
             ELSE IF Len(selectedForComparison) < 2
             THEN Append(selectedForComparison, id)
             ELSE selectedForComparison
    /\ UNCHANGED <<contentList, comparisonMode, showComparison, diffs, expandedPaths,
                   mutVars, walkVars, laterVars>>

\* the Compare button with two entries selected: setShowComparison(true),
\* ContentComparison mounts and its useMemo runs
\* compareObjects(leftContent.data, rightContent.data)
ShowComparison ==
    /\ comparisonMode
    /\ Len(selectedForComparison) = 2
    /\ ~showComparison
    /\ showComparison' = TRUE
    /\ diffs' = compareObjects(left, right, <<>>)
    /\ expandedPaths' = {}
    /\ UNCHANGED <<contentList, comparisonMode, selectedForComparison, mutVars, walkVars, laterVars>>

\* diff.leftValue or diff.rightValue is non-null and typeof 'object'
hasComplexValue(diff) == IsObj(diff.leftValue) \/ IsObj(diff.rightValue)

\* onClick of the path cell of a row: hasComplexValue && togglePath(diff.path)
togglePath ==
    /\ showComparison
    /\ \E i \in 1..Len(diffs) :
         /\ hasComplexValue(diffs[i])
         /\ expandedPaths' = IF diffs[i].path \in expandedPaths
                             THEN expandedPaths \ {diffs[i].path}
                             ELSE expandedPaths \cup {diffs[i].path}
    /\ UNCHANGED <<contentList, comparisonMode, selectedForComparison,
                   showComparison, diffs, mutVars, walkVars, laterVars>>

\* onClose: the comparison unmounts, comparison mode ends and the selection
\* is emptied
CloseComparison ==
    /\ showComparison
    /\ showComparison' = FALSE
    /\ comparisonMode' = FALSE
    /\ selectedForComparison' = <<>>
    /\ diffs' = <<>>
    /\ expandedPaths' = {}
    /\ UNCHANGED <<contentList, mutVars, walkVars, laterVars>>

DiffNext ==
    \/ EnterComparisonMode
    \/ CancelComparisonMode
    \/ SelectForComparison
    \/ ShowComparison
    \/ togglePath
    \/ CloseComparison

DiffSpec == DiffInit /\ [][DiffNext]_vars

-----------------------------------------------------------------------------
(* C13-C20: the structural differ.                                         *)

\* diff(right, left)
SwappedDiffs == compareObjects(right, left, <<>>)

\* how many rows of the given type carry path p
CountRows(rows, p, type) ==
    Cardinality({i \in 1..Len(rows) : rows[i].path = p /\ rows[i].type = type})

RowPathsOf(rows) == {rows[i].path : i \in 1..Len(rows)}

\* C13: diff(left, right) holds an added row for a path as often as
\* diff(right, left) holds a removed row for it, and a removed row as often
\* as the swapped diff holds an added row.
C13_AddedRemovedSymmetry ==
    showComparison =>
        LET swapped == SwappedDiffs
        IN  \A p \in RowPathsOf(diffs) \cup RowPathsOf(swapped) :
                /\ CountRows(diffs, p, "added") = CountRows(swapped, p, "removed")
                /\ CountRows(diffs, p, "removed") = CountRows(swapped, p, "added")

\* the comparison shows a key added inside a mapping that both entries hold
C13_Witness ==
    /\ showComparison
    /\ \E i \in 1..Len(diffs) :
         /\ diffs[i].type = "added"
         /\ diffs[i].path = <<"a", ".", "a">>
         /\ diffs[i].leftValue = TUndefined
    /\ CountRows(SwappedDiffs, <<"a", ".", "a">>, "removed") = 1

\* the keys of a mapping, as a set
KeySet(ent) == {ent[i].k : i \in 1..Len(ent)}

\* l and r hold the same keys and the same values, the keys of their
\* mappings in any order, at every depth and inside sequences as well
RECURSIVE SameUpToKeyOrder(_, _)
SameUpToKeyOrder(l, r) ==
    IF l.t # r.t THEN FALSE
    ELSE IF l.t = "obj"
    THEN /\ Len(l.ent) = Len(r.ent)
         /\ KeySet(l.ent) = KeySet(r.ent)
         /\ \A k \in KeySet(l.ent) :
                SameUpToKeyOrder(TreeLookup(l.ent, k), TreeLookup(r.ent, k))
    ELSE IF l.t = "arr"
    THEN /\ Len(l.el) = Len(r.el)
         /\ l.ent = r.ent
         /\ \A i \in 1..Len(l.el) : SameUpToKeyOrder(l.el[i], r.el[i])
    ELSE l = r

\* the same, but every sequence of l is in r as it is in l, the keys of the
\* mappings it holds in the same order
RECURSIVE SameOutsideSequences(_, _)
SameOutsideSequences(l, r) ==
    IF l.t # r.t THEN FALSE
    ELSE IF l.t = "obj"
    THEN /\ Len(l.ent) = Len(r.ent)
         /\ KeySet(l.ent) = KeySet(r.ent)
         /\ \A k \in KeySet(l.ent) :
                SameOutsideSequences(TreeLookup(l.ent, k), TreeLookup(r.ent, k))
    ELSE l = r

AllRowsEqual(rows) == \A i \in 1..Len(rows) : rows[i].type = "equal"

\* C14 as stated: two entries that differ only in the order of the keys of
\* their mappings, at any depth and inside sequences too, give equal rows
\* only.
C14_KeyOrderInsensitiveEverywhere ==
    showComparison /\ SameUpToKeyOrder(left, right) => AllRowsEqual(diffs)

\* C14 amended: two entries that differ only in the order of the keys of
\* mappings that no sequence holds give equal rows only; when the order also
\* differs inside a sequence, the only other rows are modified rows of two
\* sequences that hold the same data in mappings of another key order.
C14_KeyOrderInsensitiveOutsideSequences ==
    showComparison =>
        /\ SameOutsideSequences(left, right) => AllRowsEqual(diffs)
        /\ SameUpToKeyOrder(left, right) =>
               \A i \in 1..Len(diffs) :
                   \/ diffs[i].type = "equal"
                   \/ /\ diffs[i].type = "modified"
                      /\ diffs[i].leftValue.t = "arr"
                      /\ diffs[i].rightValue.t = "arr"
                      /\ diffs[i].leftValue # diffs[i].rightValue
                      /\ SameUpToKeyOrder(diffs[i].leftValue, diffs[i].rightValue)

\* the comparison shows only equal rows for two entries whose root keys and
\* the keys of a nested mapping come in different orders
C14_Witness ==
    /\ showComparison
    /\ SameOutsideSequences(left, right)
    /\ Len(left.ent) > 1
    /\ left.ent[1].k # right.ent[1].k
    /\ \E e \in 1..Len(left.ent) :
         /\ left.ent[e].v.t = "obj"
         /\ TreeLookup(right.ent, left.ent[e].k) # left.ent[e].v
    /\ Len(diffs) > 2
    /\ AllRowsEqual(diffs)

\* the rows the visit of one key of a level pushes
KeyRows(l, r, p, key) == compareKeys(l, r, p, <<key>>, 1)

\* the levels compareObjects visits from (l, r, p) on: the level itself and
\* the levels of every key that holds a mapping on both sides
RECURSIVE VisitsFrom(_, _, _)
VisitsFrom(l, r, p) ==
    {<<l, r, p>>} \cup
    UNION {LET key == allKeys(l, r)[i]
               lv == OptionalGet(l, key)
               rv == OptionalGet(r, key)
           IN  IF KeyIn(l, key) /\ KeyIn(r, key) /\ lv.t = "obj" /\ rv.t = "obj"
               THEN VisitsFrom(lv, rv, currentPath(p, key))
               ELSE {} : i \in 1..Len(allKeys(l, r))}

\* the levels of the comparison on screen
Visits == VisitsFrom(left, right, <<>>)

\* the keys of a level, of either side
LevelKeys(l, r) == KeySet(l.ent) \cup KeySet(r.ent)

HasDot(key) == \E i \in 1..Len(key) : key[i] = "."

\* no key of the tree holds the separator of paths
RECURSIVE NoDottedKey(_)
NoDottedKey(tree) ==
    /\ \A i \in 1..Len(tree.ent) : ~HasDot(tree.ent[i].k) /\ NoDottedKey(tree.ent[i].v)
    /\ \A i \in 1..Len(tree.el) : NoDottedKey(tree.el[i])

\* path q lies below path cp
IsBelow(cp, q) == Len(q) > Len(cp) /\ SubSeq(q, 1, Len(cp) + 1) = cp \o <<".">>

RowsAt(rows, cp) == {i \in 1..Len(rows) : rows[i].path = cp}
RowsBelow(rows, cp) == {i \in 1..Len(rows) : IsBelow(cp, rows[i].path)}

\* C15: at every level the differ visits, a key that holds a sequence on
\* both sides pushes exactly one row, with the key's path and the two
\* sequences, modified when the sequences differ in an element, in length or
\* in the order of their elements and equal when they are the same; the row
\* is among the rows shown, and when no key holds a '.', it is the only row
\* shown with that path and no row is shown with a path below it.
C15_ArrayAtomicity ==
    showComparison =>
        \A visit \in Visits :
            \A key \in LevelKeys(visit[1], visit[2]) :
                LET lv == OptionalGet(visit[1], key)
                    rv == OptionalGet(visit[2], key)
                    cp == currentPath(visit[3], key)
                    row == DiffResult(cp, lv, rv,
                                      IF lv # rv THEN "modified" ELSE "equal")
                IN  lv.t = "arr" /\ rv.t = "arr" =>
                        /\ KeyRows(visit[1], visit[2], visit[3], key) = <<row>>
                        /\ \E i \in 1..Len(diffs) : diffs[i] = row
                        /\ NoDottedKey(left) /\ NoDottedKey(right) =>
                               /\ Cardinality(RowsAt(diffs, cp)) = 1
                               /\ RowsBelow(diffs, cp) = {}

\* the comparison shows one modified row for two sequences, inside a mapping
\* of both entries, that hold the same two elements in the other order
C15_Witness ==
    /\ showComparison
    /\ Len(diffs) = 1
    /\ Len(left.ent) = 1
    /\ Len(right.ent) = 1
    /\ left.ent[1].v.t = "obj"
    /\ right.ent[1].v.t = "obj"
    /\ diffs[1].type = "modified"
    /\ diffs[1].path = <<"a", ".", "a">>
    /\ diffs[1].leftValue.t = "arr"
    /\ diffs[1].rightValue.t = "arr"
    /\ Len(diffs[1].leftValue.el) = 2
    /\ Len(diffs[1].rightValue.el) = 2
    /\ diffs[1].leftValue.el[1] = diffs[1].rightValue.el[2]
    /\ diffs[1].leftValue.el[2] = diffs[1].rightValue.el[1]
    /\ diffs[1].leftValue.el[1] # diffs[1].leftValue.el[2]

\* the keys both sides of a level own
SharedKeys(l, r) == KeySet(l.ent) \cap KeySet(r.ent)

\* C16: at every level the differ visits, a key both sides own whose values
\* are neither two mappings nor two sequences pushes exactly one row, with
\* the key's path and the two values, equal when the JSON texts of the values
\* are the same (which they are only for the same value) and modified
\* otherwise; the row is among the rows shown, and when no key holds a '.',
\* it is the only row shown with that path and no row is shown below it.
C16_LeafComparison ==
    showComparison =>
        \A visit \in Visits :
            \A key \in SharedKeys(visit[1], visit[2]) :
                LET lv == TreeLookup(visit[1].ent, key)
                    rv == TreeLookup(visit[2].ent, key)
                    cp == currentPath(visit[3], key)
                    same == stringify(lv) = stringify(rv)
                    row == DiffResult(cp, lv, rv, IF same THEN "equal" ELSE "modified")
                IN  ~(lv.t = "obj" /\ rv.t = "obj") /\ ~(lv.t = "arr" /\ rv.t = "arr") =>
                        /\ KeyRows(visit[1], visit[2], visit[3], key) = <<row>>
                        /\ same <=> lv = rv
                        /\ \E i \in 1..Len(diffs) : diffs[i] = row
                        /\ NoDottedKey(left) /\ NoDottedKey(right) =>
                               /\ Cardinality(RowsAt(diffs, cp)) = 1
                               /\ RowsBelow(diffs, cp) = {}

\* the comparison shows one modified row for a key that holds a mapping with
\* a key of its own on the left and a number on the right
C16_Witness ==
    /\ showComparison
    /\ Len(diffs) = 1
    /\ diffs[1].type = "modified"
    /\ diffs[1].path = <<"a">>
    /\ diffs[1].leftValue.t = "obj"
    /\ Len(diffs[1].leftValue.ent) = 1
    /\ diffs[1].rightValue.t = "num"
    /\ HasKey(left.ent, <<"a">>)
    /\ HasKey(right.ent, <<"a">>)

\* C17 as stated: at every level the differ visits, a key only right owns
\* pushes exactly one added row with no left value and right's value, a key
\* only left owns pushes exactly one removed row with left's value and no
\* right value, and a key both sides own pushes no added and no removed row.
C17_AddedRemovedClassification ==
    showComparison =>
        \A visit \in Visits :
            \A key \in LevelKeys(visit[1], visit[2]) :
                LET l == visit[1]
                    r == visit[2]
                    cp == currentPath(visit[3], key)
                    rows == KeyRows(l, r, visit[3], key)
                IN  /\ ~HasKey(l.ent, key) /\ HasKey(r.ent, key) =>
                        rows = <<DiffResult(cp, TUndefined, TreeLookup(r.ent, key), "added")>>
                    /\ HasKey(l.ent, key) /\ ~HasKey(r.ent, key) =>
                        rows = <<DiffResult(cp, TreeLookup(l.ent, key), TUndefined, "removed")>>
                    /\ HasKey(l.ent, key) /\ HasKey(r.ent, key) =>
                        \A i \in 1..Len(rows) :
                            rows[i].path = cp => rows[i].type \notin {"added", "removed"}

\* rows[i..i+Len(part)-1] = part for some i: part lies in rows, unbroken
OccursIn(part, rows) ==
    \E i \in 1..(Len(rows) - Len(part) + 1) :
        SubSeq(rows, i, i + Len(part) - 1) = part

\* C18: at every level the differ visits, a key that holds a mapping on both
\* sides pushes the rows of the comparison of the two mappings and nothing
\* else: every row it pushes has a path below the key's path, two empty
\* mappings push no row, the rows are among the rows shown, and when no key
\* holds a '.', no row shown has the key's own path.
C18_ContainersNeverTerminal ==
    showComparison =>
        \A visit \in Visits :
            \A key \in SharedKeys(visit[1], visit[2]) :
                LET lv == TreeLookup(visit[1].ent, key)
                    rv == TreeLookup(visit[2].ent, key)
                    cp == currentPath(visit[3], key)
                    rows == KeyRows(visit[1], visit[2], visit[3], key)
                IN  lv.t = "obj" /\ rv.t = "obj" =>
                        /\ rows = compareObjects(lv, rv, cp)
                        /\ \A i \in 1..Len(rows) : IsBelow(cp, rows[i].path)
                        /\ lv.ent = <<>> /\ rv.ent = <<>> => rows = <<>>
                        /\ OccursIn(rows, diffs)
                        /\ NoDottedKey(left) /\ NoDottedKey(right) =>
                               RowsAt(diffs, cp) = {}

\* the comparison shows one row, of another key, for two entries that both
\* hold an empty mapping under the key a
C18_Witness ==
    /\ showComparison
    /\ HasKey(left.ent, <<"a">>)
    /\ HasKey(right.ent, <<"a">>)
    /\ TreeLookup(left.ent, <<"a">>) = TObj(<<>>)
    /\ TreeLookup(right.ent, <<"a">>) = TObj(<<>>)
    /\ Len(diffs) = 1
    /\ diffs[1].path # <<"a">>

\* C19 as stated: no two rows of the comparison carry the same path, keys
\* that hold the separator '.' included.
C19_OneRowPerPath ==
    showComparison =>
        \A i, j \in 1..Len(diffs) : i # j => diffs[i].path # diffs[j].path

\* left's keys, then the keys of right that left does not own, in right's
\* order
LeftThenRightOnly(l, r) ==
    KeysOf(l.ent) \o SelectSeq(KeysOf(r.ent), LAMBDA k : ~HasKey(l.ent, k))

\* the rows of the levels in depth-first order: the rows of each key in
\* turn, and for a key both sides own with a mapping on both sides, the rows
\* of the level below it
RECURSIVE RowsDepthFirst(_, _, _)
RECURSIVE RowsInKeyOrder(_, _, _, _)
RowsInKeyOrder(l, r, p, keys) ==
    IF keys = <<>> THEN <<>>
    ELSE LET key == Head(keys)
             nested == /\ HasKey(l.ent, key)
                       /\ HasKey(r.ent, key)
                       /\ TreeLookup(l.ent, key).t = "obj"
                       /\ TreeLookup(r.ent, key).t = "obj"
         IN  (IF nested
              THEN RowsDepthFirst(TreeLookup(l.ent, key), TreeLookup(r.ent, key),
                                  currentPath(p, key))
              ELSE KeyRows(l, r, p, key))
               \o RowsInKeyOrder(l, r, p, Tail(keys))

RowsDepthFirst(l, r, p) == RowsInKeyOrder(l, r, p, LeftThenRightOnly(l, r))

\* C20: the rows shown are the rows of the levels in depth-first order, the
\* keys of every level taken in left's order followed by the keys only right
\* owns in right's order, so that the rows of a nested mapping stand unbroken
\* where its key stands; and they are the rows a second call on the same
\* entries returns.
C20_RowOrder ==
    showComparison =>
        /\ diffs = RowsDepthFirst(left, right, <<>>)
        /\ diffs = compareObjects(left, right, <<>>)

\* the comparison shows the row of left's key before the row of the key only
\* right owns, which right holds first
C20_Witness ==
    /\ showComparison
    /\ Len(left.ent) = 1
    /\ Len(right.ent) = 2
    /\ right.ent[2].k = left.ent[1].k
    /\ Len(diffs) = 2
    /\ diffs[1].path = left.ent[1].k
    /\ diffs[2].path = right.ent[1].k

-----------------------------------------------------------------------------
(* C21: the selection of the entries to compare, over a list of more than  *)
(* two entries.                                                            *)

\* the data of the entries of the list: nothing, a scalar, a sequence
ListEntries ==
    {TObj(<<>>),
     TObj(<<[k |-> S1("a"), v |-> TLeaf(Num(S1("1")))]>>),
     TObj(<<[k |-> S1("a"), v |-> TArr(<<>>, <<>>)]>>)}

SelectInit ==
    /\ contentList \in [1..ListLength -> ListEntries]
    /\ comparisonMode = FALSE
    /\ selectedForComparison = <<>>
    /\ showComparison = FALSE
    /\ diffs = <<>>
    /\ expandedPaths = {}
    /\ MutatorIdle
    /\ WalkerIdle
    /\ LaterIdle

SelectSpec == SelectInit /\ [][DiffNext]_vars

\* the ids of the selection, as a set
SelectedIds == {selectedForComparison[i] : i \in 1..Len(selectedForComparison)}

\* C21: the selection never holds more than two entries nor one entry twice;
\* while two entries are selected and the list stays in comparison mode no
\* click adds a third; and the comparison is shown only while exactly two
\* entries are selected, whose data it compares.
C21_ExactlyTwoEntries ==
    /\ [](/\ Len(selectedForComparison) <= 2
          /\ Cardinality(SelectedIds) = Len(selectedForComparison)
          /\ SelectedIds \subseteq 1..Len(contentList)
          /\ showComparison =>
                 /\ Len(selectedForComparison) = 2
                 /\ diffs = compareObjects(left, right, <<>>))
    /\ [][Len(selectedForComparison) = 2 /\ comparisonMode' =>
              SelectedIds' \subseteq SelectedIds]_vars

\* the comparison of the third and the first entry of the list is shown, the
\* second entry is not selected
C21_Witness ==
    /\ showComparison
    /\ Len(contentList) > 2
    /\ selectedForComparison = <<3, 1>>
    /\ contentList[3] # contentList[1]
    /\ Len(diffs) = 1

-----------------------------------------------------------------------------
(* The confirmation modal: a parent opens it for an item, the user types,  *)
(* presses keys and clicks, and onConfirm starts the parent's operation.   *)

ModalChars == {"a", "b"}
ItemNames == {<<>>, <<"a">>, <<"a", "b">>}
ActionTypes == {"delete", "create", "update"}

ModalInit ==
    /\ ModalIdle
    /\ EditorIdle
    /\ MessagesIdle
    /\ FieldEditorIdle
    /\ ImportIdle
    /\ DetailIdle
    /\ MutatorIdle
    /\ WalkerIdle
    /\ DifferIdle

\* the parent sets the state that renders the modal; useState('') of the
\* modal starts the typed text empty
OpenConfirmation ==
    /\ ~showConfirmation
    /\ deleting = 0
    /\ Len(started) < MaxStarted
    /\ showConfirmation' = TRUE
    /\ actionType' \in ActionTypes
    /\ itemName' \in ItemNames
    /\ inputValue' = <<>>
    /\ UNCHANGED <<started, deleting, ModalFrame>>

\* onChange of the input: a character more or the last character less
ChangeInput ==
    /\ showConfirmation
    /\ \/ /\ Len(inputValue) < MaxTyped
          /\ \E c \in ModalChars : inputValue' = Append(inputValue, c)
       \/ /\ inputValue # <<>>
          /\ inputValue' = SubSeq(inputValue, 1, Len(inputValue) - 1)
    /\ UNCHANGED <<showConfirmation, actionType, itemName, started, deleting, ModalFrame>>

isValid == inputValue = itemName

\* the parent's onConfirm: a delete keeps the modal until the request
\* returns, a create or an update closes it and sends the request
onConfirm ==
    /\ Len(started) < MaxStarted
    /\ started' = Append(started, [type |-> actionType, typed |-> inputValue,
                                   item |-> itemName])
    /\ IF actionType = "delete"
       THEN deleting' = deleting + 1 /\ UNCHANGED showConfirmation
       ELSE showConfirmation' = FALSE /\ UNCHANGED deleting
    /\ UNCHANGED <<actionType, itemName, inputValue, ModalFrame>>

\* the parent's onCancel
onCancel ==
    /\ showConfirmation' = FALSE
    /\ UNCHANGED <<actionType, itemName, inputValue, started, deleting, ModalFrame>>

\* a key handler that confirms on Enter whatever was typed
handleKeyDownUnchecked ==
    /\ showConfirmation
    /\ \E key \in {"Escape", "Enter"} :
         IF key = "Escape" THEN onCancel ELSE onConfirm

\* handleKeyDown: Escape cancels, Enter confirms when isValid
handleKeyDown ==
    /\ showConfirmation
    /\ \E key \in {"Escape", "Enter"} :
         IF key = "Escape" THEN onCancel
         ELSE isValid /\ onConfirm

\* the confirm button, disabled unless isValid
ClickConfirm ==
    /\ showConfirmation
    /\ isValid
    /\ onConfirm

\* the Cancel button and the overlay around the modal
ClickCancel ==
    /\ showConfirmation
    /\ onCancel

\* the delete request returns: the modal is closed when it succeeded and
\* stays, with an error, when it failed
DeleteSettles ==
    /\ deleting > 0
    /\ deleting' = deleting - 1
    /\ \E ok \in BOOLEAN :
         showConfirmation' = IF ok THEN FALSE ELSE showConfirmation
    /\ UNCHANGED <<actionType, itemName, inputValue, started, ModalFrame>>

ModalNext ==
    \/ OpenConfirmation
    \/ ChangeInput
    \/ handleKeyDown
    \/ ClickConfirm
    \/ ClickCancel
    \/ DeleteSettles

ModalSpec == ModalInit /\ [][ModalNext]_vars

\* C22: every operation a confirmation started was started while the text
\* typed was itemName, character for character.
C22_TypeToConfirm ==
    \A i \in 1..Len(started) : started[i].typed = started[i].item

\* a delete and then an update were started, each with the name of its item
\* typed in full
C22_Witness ==
    /\ Len(started) = 2
    /\ started[1].type = "delete"
    /\ started[1].item = <<"a", "b">>
    /\ started[1].typed = <<"a", "b">>
    /\ started[2].type = "update"
    /\ started[2].item = <<"a">>
    /\ started[2].typed = <<"a">>

-----------------------------------------------------------------------------
(* The model JSON editor (JsonEditor.tsx) and the model requests of        *)
(* builderApi.ts.  The text of the textarea is a sequence of characters;   *)
(* the editor parses it, validates it, asks for the typed confirmation and *)
(* sends one createModel or updateModel request.                           *)

MaxSent == 1

KName == <<"n", "a", "m", "e">>
KKind == <<"k", "i", "n", "d">>
KFields == <<"f", "i", "e", "l", "d", "s">>
KType == <<"t", "y", "p", "e">>
KId == <<"i", "d">>
KData == <<"d", "a", "t", "a">>

StrLeaf(s) == TLeaf(Str(s))
Entry(key, value) == [k |-> key, v |-> value]

\* a mapping of the members that are present, in the order given
Members(ent) == TObj(SelectSeq(ent, LAMBDA e : e.v # Absent))

ModelInput(name, kind, fieldList) ==
    Members(<<Entry(KName, name), Entry(KKind, kind), Entry(KFields, fieldList)>>)

Field(name, type) == Members(<<Entry(KName, name), Entry(KType, type)>>)

FieldA == Field(StrLeaf(S1("a")), StrLeaf(S1("b")))
FieldB == Field(StrLeaf(S1("b")), StrLeaf(S1("b")))
PageKind == StrLeaf(<<"p", "a", "g", "e">>)
DataKind == StrLeaf(<<"d", "a", "t", "a">>)

\* the model being edited, as the server holds it and as the prop gives it
ExistingModel ==
    TObj(<<Entry(KId, StrLeaf(S1("m"))), Entry(KName, StrLeaf(S1("a"))),
           Entry(KKind, PageKind), Entry(KFields, TArr(<<FieldA>>, <<>>))>>)

\* the values a user's text may denote: a valid model, and the same model
\* with its name, its kind or its fields changed, missing or malformed
NameValues ==
    {Absent, StrLeaf(<<>>), StrLeaf(S1("a")), StrLeaf(S1("b")), TLeaf(Num(S1("1")))}
KindValues == {Absent, PageKind, DataKind, StrLeaf(S1("x"))}
FieldsValues ==
    {Absent, StrLeaf(S1("a")), TArr(<<>>, <<>>), TArr(<<TLeaf(Null)>>, <<>>),
     TArr(<<TObj(<<>>)>>, <<>>), TArr(<<Field(StrLeaf(S1("a")), Absent)>>, <<>>),
     TArr(<<FieldA>>, <<>>), TArr(<<FieldB>>, <<>>),
     TArr(<<FieldA, Field(Absent, StrLeaf(S1("b")))>>, <<>>)}

ParsedValues ==
    {ModelInput(n, PageKind, TArr(<<FieldA>>, <<>>)) : n \in NameValues}
      \cup {ModelInput(StrLeaf(S1("a")), k, TArr(<<FieldA>>, <<>>)) : k \in KindValues}
      \cup {ModelInput(StrLeaf(S1("a")), PageKind, f) : f \in FieldsValues}
      \cup {ModelInput(StrLeaf(S1("b")), DataKind, TArr(<<FieldB>>, <<>>)),
            TLeaf(Null), StrLeaf(S1("a")), TArr(<<FieldA>>, <<>>)}

\* the values a user's text may denote in the editor of one field
FieldValues ==
    {TLeaf(Null), TLeaf(Bool(FALSE)), TLeaf(Num(S1("0"))), StrLeaf(<<>>),
     TLeaf(Num(S1("1"))), TObj(<<>>)}

\* JSON.parse as the inverse of JSON.stringify on the values above; every
\* other text is a syntax error.  The white space JSON.stringify(x, null, 2)
\* puts in the initial text is left out: JSON.parse skips it.
ParseTable ==
    {[s |-> stringify(value).s, value |-> value] : value \in ParsedValues \cup FieldValues}

SyntaxError == [t |-> "SyntaxError", v |-> <<>>, ent |-> <<>>, el |-> <<>>]

JSONparse(text) ==
    IF \E e \in ParseTable : e.s = text
    THEN (CHOOSE e \in ParseTable : e.s = text).value
    ELSE SyntaxError

\* the texts a user may leave in the textarea: the JSON texts of the values
\* above, the texts of the scalar ones with the last character missing, and
\* the empty text
Texts ==
    {e.s : e \in {x \in ParseTable : x.value \in ParsedValues}}
      \cup {SubSeq(e.s, 1, Len(e.s) - 1)
               : e \in {x \in ParseTable : x.value \in ParsedValues /\ x.value.t # "obj"}}
      \cup {<<>>}

\* !value of JavaScript
Falsy(value) ==
    \/ value.t \in {"undefined", "null", "absent"}
    \/ value.t = "str" /\ value.v = <<>>
    \/ value.t = "num" /\ value.v \in {S1("0"), <<"-", "0">>}
    \/ value.t = "bool" /\ value.v = Bool(FALSE).v

validKinds == {<<"c", "o", "m", "p", "o", "n", "e", "n", "t">>, <<"p", "a", "g", "e">>, <<"d", "a", "t", "a">>, <<"s", "e", "c", "t", "i", "o", "n">>}

\* the for loop of validateJson over parsed.fields, from element i on
RECURSIVE fieldsError(_, _)
fieldsError(el, i) ==
    IF i > Len(el) THEN ""
    ELSE IF Nullish(el[i]) THEN "Cannot read properties of null"
    ELSE IF Falsy(OptionalGet(el[i], KName)) THEN "All fields must have a name"
    ELSE IF Falsy(OptionalGet(el[i], KType)) THEN "Field must have a type"
    ELSE fieldsError(el, i + 1)

\* a validation that does not look into the fields
validationErrorWithoutFieldLoop(text) ==
    LET parsed == JSONparse(text)
    IN  IF parsed = SyntaxError THEN "Unexpected token"
        ELSE IF Nullish(parsed) THEN "Cannot read properties of null"
        ELSE IF Falsy(OptionalGet(parsed, KName)) THEN "Missing required field: name"
        ELSE IF Falsy(OptionalGet(parsed, KKind)) THEN "Missing required field: kind"
        ELSE IF ~(OptionalGet(parsed, KKind).t = "str"
                    /\ OptionalGet(parsed, KKind).v \in validKinds)
        THEN "Invalid kind"
        ELSE IF Falsy(OptionalGet(parsed, KFields)) \/ OptionalGet(parsed, KFields).t # "arr"
        THEN "Missing required field: fields (must be an array)"
        ELSE IF Len(OptionalGet(parsed, KFields).el) = 0
        THEN "At least one field is required"
        ELSE ""

\* the message validateJson sets with setError, "" when it returns true; an
\* exception of JSON.parse or of a member read on null is caught and its
\* message is the error
validationError(text) ==
    LET parsed == JSONparse(text)
    IN  IF parsed = SyntaxError THEN "Unexpected token"
        ELSE IF Nullish(parsed) THEN "Cannot read properties of null"
        ELSE IF Falsy(OptionalGet(parsed, KName)) THEN "Missing required field: name"
        ELSE IF Falsy(OptionalGet(parsed, KKind)) THEN "Missing required field: kind"
        ELSE IF ~(OptionalGet(parsed, KKind).t = "str"
                    /\ OptionalGet(parsed, KKind).v \in validKinds)
        THEN "Invalid kind"
        ELSE IF Falsy(OptionalGet(parsed, KFields)) \/ OptionalGet(parsed, KFields).t # "arr"
        THEN "Missing required field: fields (must be an array)"
        ELSE IF Len(OptionalGet(parsed, KFields).el) = 0
        THEN "At least one field is required"
        ELSE fieldsError(OptionalGet(parsed, KFields).el, 1)

\* the body of the request builderApi.createModel sends
createModel(modelInput) == modelInput

\* an update that sends the whole input as data
updateModelWholeInput(modelId, updates) ==
    TObj(<<Entry(KId, modelId), Entry(KData, updates)>>)

\* the body of the request builderApi.updateModel sends
updateModel(modelId, updates) ==
    TObj(<<Entry(KId, modelId),
           Entry(KData, TObj(<<Entry(KFields, OptionalGet(updates, KFields))>>))>>)

\* the stored model after the server applied the data of an update: each
\* member of data replaces the member of that name
RECURSIVE Assign(_, _, _)
Assign(target, ent, i) ==
    IF i > Len(ent) THEN target
    ELSE LET rest == SelectSeq(target.ent, LAMBDA e : e.k # ent[i].k)
             put == IF HasKey(target.ent, ent[i].k)
                    THEN [j \in 1..Len(target.ent) |->
                            IF target.ent[j].k = ent[i].k THEN ent[i] ELSE target.ent[j]]
                    ELSE Append(rest, ent[i])
         IN  Assign(TObj(put), ent, i + 1)

\* the text the editor starts with: the name, kind and fields of the model,
\* or the template of a new model
InitialText(m) ==
    IF m = TUndefined
    THEN stringify(ModelInput(StrLeaf(S1("a")), PageKind, TArr(<<FieldA>>, <<>>))).s
    ELSE stringify(ModelInput(OptionalGet(m, KName), OptionalGet(m, KKind),
                              OptionalGet(m, KFields))).s

EditorInit ==
    /\ model \in {TUndefined, ExistingModel}
    /\ serverModel = model
    /\ jsonContent = InitialText(model)
    /\ parsedModel = TLeaf(Null)
    /\ error = ""
    /\ success = ""
    /\ loading = FALSE
    /\ sent = <<>>
    /\ ModalIdle
    /\ DetailIdle
    /\ FieldEditorIdle
    /\ ImportIdle
    /\ MutatorIdle
    /\ WalkerIdle
    /\ DifferIdle

\* the name the modal compares the typed text with: a name that is not a
\* string equals no typed text
NotAString == <<"not a string">>
ItemNameOf(value) == IF value.t = "str" THEN value.v ELSE NotAString

\* onChange of the textarea, disabled while loading and covered by the modal
EditJson ==
    /\ ~loading
    /\ ~showConfirmation
    /\ jsonContent' \in Texts
    /\ UNCHANGED <<model, serverModel, parsedModel, error, success, loading, sent,
                   modalVars, EditorOthers>>

\* the Validate JSON button: validateJson
ClickValidate ==
    /\ ~loading
    /\ ~showConfirmation
    /\ error' = validationError(jsonContent)
    /\ success' = IF validationError(jsonContent) = "" THEN "JSON is valid" ELSE ""
    /\ UNCHANGED <<model, serverModel, jsonContent, parsedModel, loading, sent,
                   modalVars, EditorOthers>>

\* the Save button: validateJson, then the parsed text is kept and the
\* confirmation is opened
handleSaveClick ==
    /\ ~loading
    /\ ~showConfirmation
    /\ error' = validationError(jsonContent)
    /\ success' = IF validationError(jsonContent) = "" THEN "JSON is valid" ELSE ""
    /\ IF validationError(jsonContent) # ""
       THEN UNCHANGED <<parsedModel, modalVars>>
       ELSE /\ parsedModel' = JSONparse(jsonContent)
            /\ showConfirmation' = TRUE
            /\ actionType' = IF model # TUndefined THEN "update" ELSE "create"
            /\ itemName' = ItemNameOf(OptionalGet(JSONparse(jsonContent), KName))
            /\ inputValue' = <<>>
            /\ UNCHANGED <<started, deleting>>
    /\ UNCHANGED <<model, serverModel, jsonContent, loading, sent,
                   EditorOthers>>

\* onChange of the input of the modal
EditorChangeInput ==
    /\ showConfirmation
    /\ \/ /\ Len(inputValue) < MaxTyped
          /\ \E c \in ModalChars : inputValue' = Append(inputValue, c)
       \/ /\ inputValue # <<>>
          /\ inputValue' = SubSeq(inputValue, 1, Len(inputValue) - 1)
    /\ UNCHANGED <<showConfirmation, actionType, itemName, started, deleting,
                   editorVars, msgVars, EditorOthers>>

\* onCancel of the modal: setShowConfirmation(false) unmounts the modal and
\* its typed text with it
EditorCancel ==
    /\ showConfirmation' = FALSE
    /\ actionType' = "none"
    /\ itemName' = <<>>
    /\ inputValue' = <<>>
    /\ UNCHANGED <<started, deleting, editorVars, msgVars, EditorOthers>>

\* handleConfirmSave up to its await: the modal is closed and the request
\* is sent, updateModel when the model has an id and createModel otherwise;
\* without credentials the call throws before sending and the catch and the
\* finally run at once
handleConfirmSave ==
    /\ ~Falsy(parsedModel)
    /\ Len(sent) < MaxSent
    /\ showConfirmation' = FALSE
    /\ actionType' = "none"
    /\ itemName' = <<>>
    /\ inputValue' = <<>>
    /\ success' = ""
    /\ \E credentials \in BOOLEAN :
         IF credentials
         THEN /\ loading' = TRUE
              /\ error' = ""
              /\ sent' = Append(sent,
                    IF ~Falsy(OptionalGet(model, KId))
                    THEN [op |-> "updateModel", input |-> parsedModel,
                          body |-> updateModel(OptionalGet(model, KId), parsedModel)]
                    ELSE [op |-> "createModel", input |-> parsedModel,
                          body |-> createModel(parsedModel)])
         ELSE /\ loading' = FALSE
              /\ error' = "Not authenticated"
              /\ UNCHANGED sent
    /\ UNCHANGED <<model, serverModel, jsonContent, parsedModel, started, deleting,
                   EditorOthers>>

\* handleKeyDown of the modal with the callbacks of the editor
EditorKeyDown ==
    /\ showConfirmation
    /\ \E key \in {"Escape", "Enter"} :
         IF key = "Escape" THEN EditorCancel
         ELSE isValid /\ handleConfirmSave

\* the confirm button of the modal, disabled unless isValid
EditorClickConfirm ==
    /\ showConfirmation
    /\ isValid
    /\ handleConfirmSave

\* the Cancel button of the modal and the overlay around it
EditorClickCancel ==
    /\ showConfirmation
    /\ EditorCancel

\* the request returns: on success the server has applied the data of an
\* update to the stored model and the success message is shown, on failure
\* the error is shown; loading ends in both cases
RequestSettles ==
    /\ loading
    /\ loading' = FALSE
    /\ \E ok \in BOOLEAN :
         IF ok
         THEN /\ success' = IF sent[Len(sent)].op = "updateModel"
                            THEN "Model updated successfully"
                            ELSE "Model created successfully"
              /\ error' = error
              /\ serverModel' =
                    IF sent[Len(sent)].op = "updateModel"
                    THEN Assign(serverModel,
                                OptionalGet(sent[Len(sent)].body, KData).ent, 1)
                    ELSE serverModel
         ELSE /\ error' = "Failed to save model"
              /\ UNCHANGED <<success, serverModel>>
    /\ UNCHANGED <<model, jsonContent, parsedModel, sent, modalVars,
                   EditorOthers>>

EditorNext ==
    \/ EditJson
    \/ ClickValidate
    \/ handleSaveClick
    \/ EditorChangeInput
    \/ EditorKeyDown
    \/ EditorClickConfirm
    \/ EditorClickCancel
    \/ RequestSettles

ModelEditorSpec == EditorInit /\ [][EditorNext]_vars

\* the update requests sent so far
UpdateRequests == {i \in 1..Len(sent) : sent[i].op = "updateModel"}

NonEmpty(value) ==
    /\ value.t \notin {"absent", "undefined", "null"}
    /\ ~(value.t = "str" /\ value.v = <<>>)

\* a model with a non-empty name, one of the four kinds, and a non-empty
\* sequence of fields that each have a name and a type
WellFormedModel(value) ==
    /\ value.t = "obj"
    /\ NonEmpty(TreeLookup(value.ent, KName))
    /\ TreeLookup(value.ent, KKind).t = "str"
    /\ TreeLookup(value.ent, KKind).v \in validKinds
    /\ TreeLookup(value.ent, KFields).t = "arr"
    /\ Len(TreeLookup(value.ent, KFields).el) > 0
    /\ \A i \in 1..Len(TreeLookup(value.ent, KFields).el) :
         LET field == TreeLookup(value.ent, KFields).el[i]
         IN  /\ field.t = "obj"
             /\ NonEmpty(TreeLookup(field.ent, KName))
             /\ NonEmpty(TreeLookup(field.ent, KType))

\* the text is the JSON text of a well-formed model
WellFormedText(text) ==
    \E e \in ParseTable : e.s = text /\ WellFormedModel(e.value)

\* C24: every request sent carries a well-formed model; a confirmation is
\* open only for a text of a well-formed model, with no error shown; a
\* request is sent only from the open confirmation and carries the parsed
\* text; a Save on any other text shows an error, opens no confirmation and
\* sends nothing
C24_ValidationGatesSave ==
    /\ [](/\ \A i \in 1..Len(sent) : WellFormedModel(sent[i].input)
          /\ showConfirmation =>
               /\ WellFormedText(jsonContent)
               /\ parsedModel = JSONparse(jsonContent)
               /\ error = "")
    /\ [][sent' # sent =>
            /\ showConfirmation
            /\ sent' = Append(sent, sent'[Len(sent')])
            /\ sent'[Len(sent')].input = JSONparse(jsonContent)]_vars
    /\ [][handleSaveClick /\ ~WellFormedText(jsonContent) =>
            /\ error' # ""
            /\ ~showConfirmation'
            /\ sent' = sent]_vars

\* a model was created, then the text was changed to one with a nameless
\* second field and Save showed the error instead of the confirmation
C24_Witness ==
    /\ Len(sent) = 1
    /\ sent[1].op = "createModel"
    /\ sent[1].body = sent[1].input
    /\ ~loading
    /\ ~showConfirmation
    /\ ~WellFormedText(jsonContent)
    /\ JSONparse(jsonContent) # SyntaxError
    /\ error = "All fields must have a name"

-----------------------------------------------------------------------------
(* Saving a field from the content detail view: handleEditField and        *)
(* handleSaveField of ContentDetail, the updateContent request, and the    *)
(* refresh App runs as onUpdate one second after a successful save.        *)

MaxWrites == 2

One == TLeaf(Num(S1("1")))
Two == TLeaf(Num(S1("2")))
BracketKey == IndexSegment(0)

\* content.data of the entry shown: two scalars; a sequence holding a
\* mapping; a mapping with a key that reads [0], at the root and inside a
\* sequence; a mapping inside a mapping
DetailData ==
    {TObj(<<Entry(S1("a"), One), Entry(S1("b"), One)>>),
     TObj(<<Entry(S1("a"), TArr(<<One, TObj(<<Entry(S1("a"), One)>>)>>, <<>>))>>),
     TObj(<<Entry(S1("a"), TArr(<<TObj(<<Entry(BracketKey, One)>>)>>, <<>>)),
            Entry(BracketKey, One)>>),
     TObj(<<Entry(S1("a"), TObj(<<Entry(BracketKey, One), Entry(S1("b"), One)>>))>>)}

\* the values the field editor hands to onSave
DetailNewValues == {Two}

NoEdit == [open |-> FALSE, path |-> <<>>, value |-> TUndefined]

\* updateDataAtPath(content.data, path, newValue) on the value of the prop:
\* the tree it returns, or the exception it throws
UpdateTree(data, p, value) ==
    LET b == Build(<<>>, data)
        v == Build(b.h, value)
        out == updateDataAtPath(v.h, b.r, p, v.r)
    IN  IF out.err # "none" THEN [err |-> out.err, data |-> TUndefined]
        ELSE [err |-> "none", data |-> Deref(out.h, out.r)]

\* what the server reads from body: JSON.stringify(updates): undefined
\* members of a mapping are left out, undefined elements and holes of a
\* sequence are null, the other properties of a sequence are left out
RECURSIVE JSONRoundTrip(_)
JSONRoundTrip(tree) ==
    CASE tree.t = "obj" ->
            LET kept == SelectSeq(tree.ent, LAMBDA e : stringify(e.v).defined)
            IN  TObj([i \in 1..Len(kept) |-> Entry(kept[i].k, JSONRoundTrip(kept[i].v))])
      [] tree.t = "arr" ->
            TArr([i \in 1..Len(tree.el) |->
                    IF stringify(tree.el[i]).defined THEN JSONRoundTrip(tree.el[i])
                    ELSE TLeaf(Null)], <<>>)
      [] OTHER -> tree

DetailInit ==
    /\ content \in DetailData
    /\ fields = <<PlainField(S1("a"))>>
    /\ expanded = {}
    /\ jsonData = TObj(<<>>)
    /\ currentView = "detail"
    /\ rendered = FieldList(content, fields, {})
    /\ editingField = NoEdit
    /\ saving = FALSE
    /\ serverData = content
    /\ writes = <<>>
    /\ timers = 0
    /\ fetching = 0
    /\ refreshes = 0
    /\ MessagesIdle
    /\ ModalIdle
    /\ EditorIdle
    /\ FieldEditorIdle
    /\ ImportIdle
    /\ MutatorIdle
    /\ DifferIdle

DetailOthers == <<mutVars, diffVars, modalVars, editorVars, fieldEditorVars, importVars>>

\* the field editor is rendered whenever a field is being edited
FieldEditorShownWhileSaving == editingField.open

\* editingField && !saving: the field editor is rendered
FieldEditorShown == editingField.open /\ ~saving

\* a click on a branch row; the field editor and the spinner cover the rows
DetailToggleRow ==
    /\ ~saving
    /\ ~editingField.open
    /\ ToggleRow

\* handleEditField, from the edit button of any row and from a click on a
\* leaf row
handleEditField ==
    /\ ~saving
    /\ ~editingField.open
    /\ \E i \in 1..Len(rendered) :
         editingField' = [open |-> TRUE, path |-> rendered[i].path,
                          value |-> rendered[i].value]
    /\ error' = ""
    /\ success' = ""
    /\ UNCHANGED <<saving, serverData, writes, timers, fetching, refreshes,
                   walkVars, DetailOthers>>

\* onCancel of the field editor
CancelEditField ==
    /\ FieldEditorShown
    /\ editingField' = NoEdit
    /\ UNCHANGED <<saving, serverData, writes, timers, fetching, refreshes,
                   msgVars, walkVars, DetailOthers>>

\* handleSaveField up to its await, called by the field editor with the new
\* value: the updated data is sent; when updateDataAtPath throws, the catch
\* and the finally run at once and nothing is sent
handleSaveField ==
    /\ FieldEditorShown
    /\ Len(writes) < MaxWrites
    /\ \E value \in DetailNewValues :
         LET updatedData == UpdateTree(content, editingField.path, value)
         IN  IF updatedData.err # "none"
             THEN /\ error' = updatedData.err
                  /\ UNCHANGED <<saving, writes>>
             ELSE /\ error' = ""
                  /\ saving' = TRUE
                  /\ writes' = Append(writes,
                        [path |-> editingField.path, value |-> value,
                         data |-> updatedData.data, status |-> "pending"])
    /\ success' = ""
    /\ UNCHANGED <<editingField, serverData, timers, fetching, refreshes,
                   walkVars, DetailOthers>>

\* an updateContent that schedules the refresh whether or not it succeeded
UpdateSettlesAlwaysRefresh ==
    /\ saving
    /\ saving' = FALSE
    /\ timers' = timers + 1
    /\ \E ok \in BOOLEAN :
         IF ok
         THEN /\ writes' = [writes EXCEPT ![Len(writes)].status = "ok"]
              /\ serverData' = JSONRoundTrip(writes[Len(writes)].data)
              /\ success' = "updated successfully"
              /\ editingField' = NoEdit
              /\ UNCHANGED error
         ELSE /\ writes' = [writes EXCEPT ![Len(writes)].status = "failed"]
              /\ error' = "Failed to update field"
              /\ UNCHANGED <<serverData, success, editingField>>
    /\ UNCHANGED <<fetching, refreshes, walkVars, DetailOthers>>

\* updateContent returns: on success the server holds the data sent, the
\* success message is shown, the editor is closed and onUpdate is scheduled;
\* on failure the error is shown; saving ends in both cases
UpdateSettles ==
    /\ saving
    /\ saving' = FALSE
    /\ \E ok \in BOOLEAN :
         IF ok
         THEN /\ writes' = [writes EXCEPT ![Len(writes)].status = "ok"]
              /\ serverData' = JSONRoundTrip(writes[Len(writes)].data)
              /\ success' = "updated successfully"
              /\ editingField' = NoEdit
              /\ timers' = timers + 1
              /\ UNCHANGED error
         ELSE /\ writes' = [writes EXCEPT ![Len(writes)].status = "failed"]
              /\ error' = "Failed to update field"
              /\ UNCHANGED <<serverData, success, editingField, timers>>
    /\ UNCHANGED <<fetching, refreshes, walkVars, DetailOthers>>

\* the timeout runs onUpdate: getContentById is called
onUpdate ==
    /\ timers > 0
    /\ timers' = timers - 1
    /\ fetching' = fetching + 1
    /\ refreshes' = refreshes + 1
    /\ UNCHANGED <<editingField, saving, serverData, writes, msgVars, walkVars,
                   DetailOthers>>

\* getContentById returns: setSelectedContent(updated) when an entry came
\* back, and the rows are rendered from it; nothing when none came back or
\* the request failed
RefreshSettles ==
    /\ fetching > 0
    /\ fetching' = fetching - 1
    /\ \E updated \in BOOLEAN :
         IF updated
         THEN /\ content' = serverData
              /\ rendered' = FieldList(serverData, fields, expanded)
         ELSE UNCHANGED <<content, rendered>>
    /\ UNCHANGED <<fields, expanded, jsonData, currentView, editingField, saving,
                   serverData, writes, timers, refreshes, msgVars, DetailOthers>>

DetailNext ==
    \/ DetailToggleRow
    \/ handleEditField
    \/ CancelEditField
    \/ handleSaveField
    \/ UpdateSettles
    \/ onUpdate
    \/ RefreshSettles

DetailSpec == DetailInit /\ [][DetailNext]_vars

\* the writes with the given status
WritesWith(status) == {i \in 1..Len(writes) : writes[i].status = status}

RECURSIVE Replace(_, _, _)
Replace(tree, p, v) ==
    IF p = <<>> THEN v
    ELSE IF tree.t = "arr"
    THEN TArr([i \in 1..Len(tree.el) |->
                 IF Head(p) = <<"[">> \o NatToChars(i - 1) \o <<"]">>
                 THEN Replace(tree.el[i], Tail(p), v) ELSE tree.el[i]], tree.ent)
    ELSE TObj([i \in 1..Len(tree.ent) |->
                 IF Head(p) = tree.ent[i].k
                 THEN [k |-> tree.ent[i].k, v |-> Replace(tree.ent[i].v, Tail(p), v)]
                 ELSE tree.ent[i]])

\* C26: every row on screen carries the value the data holds at the row's
\* path, and updateDataAtPath with that path returns the data with that node
\* replaced and nothing else changed, through mappings and sequences alike
C26_WalkerPathsAddressNodes ==
    \A i \in 1..Len(rendered) :
        /\ TreeAt(content, rendered[i].path) = rendered[i].value
        /\ \A v \in DetailNewValues :
             UpdateTree(content, rendered[i].path, v)
               = [err |-> "none", data |-> Replace(content, rendered[i].path, v)]

\* the key [0] of a mapping that is element 0 of a sequence was edited; the
\* rows show the new data, three levels deep, next to the root key [0]
C26_Witness ==
    /\ Len(writes) >= 1
    /\ writes[1].status = "ok"
    /\ writes[1].path = <<S1("a"), BracketKey, BracketKey>>
    /\ content = writes[1].data
    /\ TreeAt(content, <<S1("a")>>).t = "arr"
    /\ TreeAt(content, <<S1("a"), BracketKey>>).t = "obj"
    /\ TreeAt(content, <<S1("a"), BracketKey, BracketKey>>) = Two
    /\ TreeAt(content, <<BracketKey>>) = One
    /\ \E i \in 1..Len(rendered) : rendered[i].path = <<S1("a"), BracketKey, BracketKey>>

\* neither path leads through the other
Unrelated(p, q) == ~IsPrefix(p, q) /\ ~IsPrefix(q, p)

\* C27: when two writes at unrelated paths succeeded one after the other,
\* the data of the second holds at the path of the first the value the
\* first wrote
C27_NoLostUpdate ==
    \A i \in 1..(Len(writes) - 1) :
        /\ writes[i].status = "ok"
        /\ writes[i + 1].status = "ok"
        /\ Unrelated(writes[i].path, writes[i + 1].path)
        => TreeAt(writes[i + 1].data, writes[i].path) = writes[i].value

\* C29: at most one updateContent request is pending, saving is set exactly
\* while one is, no field editor is shown meanwhile, and a request is sent
\* only when none is pending and from the field editor
C29_OneSaveInFlight ==
    /\ [](/\ Cardinality(WritesWith("pending")) <= 1
          /\ saving <=> WritesWith("pending") # {}
          /\ saving => ~FieldEditorShown)
    /\ [][Len(writes') > Len(writes) =>
            /\ WritesWith("pending") = {}
            /\ ~saving
            /\ editingField.open
            /\ writes' = Append(writes, writes'[Len(writes')])
            /\ writes'[Len(writes')].status = "pending"
            /\ writes'[Len(writes')].path = editingField.path]_vars

\* a second save is pending after the first one failed
C29_Witness ==
    /\ Len(writes) = 2
    /\ writes[1].status = "failed"
    /\ writes[2].status = "pending"
    /\ saving
    /\ editingField.open

-----------------------------------------------------------------------------
(* The editor of one content field (ContentFieldEditor.tsx): the text is   *)
(* parsed by the type of the field, the typed confirmation is asked for,   *)
(* and the parsed value is handed to onSave.                               *)

MaxSaved == 2

fieldName == S1("a")

\* the value prop of the editor, by the type of the field
ValueProp(type) ==
    CASE type = "boolean" -> TLeaf(Bool(TRUE))
      [] type = "string" -> StrLeaf(S1("a"))
      [] OTHER -> TLeaf(Num(S1("1")))

useJsonEditor == fieldType = "none"
useNumberEditor == fieldType = "number"
useBooleanEditor == fieldType = "boolean"

\* the texts a user may leave in the input of the editor
FieldTexts(type) ==
    CASE type = "none" -> {stringify(v).s : v \in FieldValues} \cup {<<"n", "u", "l">>}
      [] type = "number" -> {<<>>, S1("0"), S1("1")}
      [] type = "boolean" -> {Bool(TRUE).v, Bool(FALSE).v}
      [] OTHER -> {<<>>, S1("a")}

\* parseFloat of the text of a number input that holds digits or nothing
parseFloat(text) ==
    IF DigitsPrefix(text) = <<>> THEN NaN
    ELSE [nan |-> FALSE, n |-> DecValue(DigitsPrefix(text), 0)]

\* the state the effect of the editor sets when it mounts
FieldEditorMounts(type) ==
    /\ fieldType' = type
    /\ mounted' = TRUE
    /\ jsonContent' = IF type = "none" THEN stringify(ValueProp(type)).s ELSE <<>>
    /\ editContent' = IF type = "none" THEN <<>> ELSE ValueProp(type).v
    /\ error' = ""
    /\ parsedValue' = TLeaf(Null)
    /\ showConfirmation' = FALSE
    /\ actionType' = "none"
    /\ itemName' = <<>>
    /\ inputValue' = <<>>

FieldInit ==
    /\ \E type \in {"none", "number", "boolean", "string"} :
         /\ fieldType = type
         /\ jsonContent = IF type = "none" THEN stringify(ValueProp(type)).s ELSE <<>>
         /\ editContent = IF type = "none" THEN <<>> ELSE ValueProp(type).v
    /\ mounted = TRUE
    /\ parsedValue = TLeaf(Null)
    /\ saved = <<>>
    /\ model = TUndefined
    /\ serverModel = TUndefined
    /\ parsedModel = TLeaf(Null)
    /\ loading = FALSE
    /\ sent = <<>>
    /\ MessagesIdle
    /\ ModalIdle
    /\ DetailIdle
    /\ ImportIdle
    /\ MutatorIdle
    /\ WalkerIdle
    /\ DifferIdle

FieldOthers ==
    <<mutVars, walkVars, diffVars, detailVars, importVars, model, serverModel,
      parsedModel, loading, sent, success, started, deleting>>

\* showConfirmation && parsedValue !== null: the confirmation is rendered
ConfirmationShown == showConfirmation /\ parsedValue # TLeaf(Null)

\* onChange of the input of the editor
FieldEdit ==
    /\ mounted
    /\ ~ConfirmationShown
    /\ IF useJsonEditor
       THEN jsonContent' \in FieldTexts(fieldType) /\ UNCHANGED editContent
       ELSE editContent' \in FieldTexts(fieldType) /\ UNCHANGED jsonContent
    /\ UNCHANGED <<fieldType, parsedValue, saved, mounted, error, modalVars, FieldOthers>>

\* handleSaveClick of the field editor
FieldHandleSaveClick ==
    /\ mounted
    /\ ~ConfirmationShown
    /\ LET parsed ==
             IF useJsonEditor THEN JSONparse(jsonContent)
             ELSE IF useNumberEditor
             THEN (IF parseFloat(editContent).nan THEN SyntaxError
                   ELSE TLeaf(Num(NatToChars(parseFloat(editContent).n))))
             ELSE IF useBooleanEditor THEN TLeaf(Bool(editContent = Bool(TRUE).v))
             ELSE StrLeaf(editContent)
       IN  IF parsed = SyntaxError
           THEN /\ error' = IF useJsonEditor THEN "Unexpected token"
                            ELSE "Invalid number format"
                /\ UNCHANGED <<parsedValue, modalVars>>
           ELSE /\ error' = ""
                /\ parsedValue' = parsed
                /\ showConfirmation' = TRUE
                /\ actionType' = "update"
                /\ itemName' = fieldName
                /\ inputValue' = <<>>
                /\ UNCHANGED <<started, deleting>>
    /\ UNCHANGED <<fieldType, editContent, jsonContent, saved, mounted, FieldOthers>>

\* the parent takes the editor off the screen; its state goes with it
FieldEditorUnmounts ==
    /\ mounted' = FALSE
    /\ jsonContent' = <<>>
    /\ editContent' = <<>>
    /\ error' = ""
    /\ parsedValue' = TLeaf(Null)
    /\ showConfirmation' = FALSE
    /\ actionType' = "none"
    /\ itemName' = <<>>
    /\ inputValue' = <<>>

\* handleKeyDown of the input of the editor: Escape calls onCancel, Enter
\* with the control key calls handleSaveClick
FieldHandleKeyDown ==
    /\ mounted
    /\ ~ConfirmationShown
    /\ ~useBooleanEditor
    /\ \E key \in {"Escape", "Control+Enter"} :
         IF key = "Escape"
         THEN FieldEditorUnmounts /\ UNCHANGED <<fieldType, saved, started, deleting, FieldOthers>>
         ELSE FieldHandleSaveClick

\* the Cancel button of the editor: onCancel
FieldCancel ==
    /\ mounted
    /\ ~ConfirmationShown
    /\ FieldEditorUnmounts
    /\ UNCHANGED <<fieldType, saved, started, deleting, FieldOthers>>

\* onChange of the input of the confirmation
FieldChangeInput ==
    /\ ConfirmationShown
    /\ \/ /\ Len(inputValue) < MaxTyped
          /\ \E c \in ModalChars : inputValue' = Append(inputValue, c)
       \/ /\ inputValue # <<>>
          /\ inputValue' = SubSeq(inputValue, 1, Len(inputValue) - 1)
    /\ UNCHANGED <<showConfirmation, actionType, itemName, started, deleting,
                   fieldEditorVars, jsonContent, error, FieldOthers>>

\* onCancel of the confirmation: setShowConfirmation(false)
FieldCloseConfirmation ==
    /\ showConfirmation' = FALSE
    /\ actionType' = "none"
    /\ itemName' = <<>>
    /\ inputValue' = <<>>
    /\ UNCHANGED <<started, deleting, fieldEditorVars, jsonContent, error, FieldOthers>>

\* handleConfirmSave of the field editor: the value goes to onSave, and the
\* parent, which starts saving, takes the editor off the screen
FieldHandleConfirmSave ==
    IF parsedValue = TLeaf(Null) THEN UNCHANGED vars
    ELSE /\ saved' = Append(saved, parsedValue)
         /\ FieldEditorUnmounts
         /\ UNCHANGED <<fieldType, started, deleting, FieldOthers>>

\* handleKeyDown of the confirmation with the callbacks of the field editor
FieldConfirmationKeyDown ==
    /\ ConfirmationShown
    /\ \E key \in {"Escape", "Enter"} :
         IF key = "Escape" THEN FieldCloseConfirmation
         ELSE isValid /\ FieldHandleConfirmSave

\* the confirm button of the confirmation, disabled unless isValid
FieldClickConfirm ==
    /\ ConfirmationShown
    /\ isValid
    /\ FieldHandleConfirmSave

\* the Cancel button of the confirmation and the overlay around it
FieldClickCancel ==
    /\ ConfirmationShown
    /\ FieldCloseConfirmation

\* the parent shows the editor again
FieldEditorOpens ==
    /\ ~mounted
    /\ Len(saved) < MaxSaved
    /\ \E type \in {"none", "number", "boolean", "string"} : FieldEditorMounts(type)
    /\ UNCHANGED <<saved, started, deleting, FieldOthers>>

FieldNext ==
    \/ FieldEdit
    \/ FieldHandleSaveClick
    \/ FieldHandleKeyDown
    \/ FieldCancel
    \/ FieldChangeInput
    \/ FieldConfirmationKeyDown
    \/ FieldClickConfirm
    \/ FieldClickCancel
    \/ FieldEditorOpens

FieldEditorSpec == FieldInit /\ [][FieldNext]_vars

\* C28: after Save parsed a value, whatever the value, the confirmation is
\* on screen, and a confirmation hands the parsed value to onSave
C28_NoParsedValueDiscarded ==
    /\ [](showConfirmation => ConfirmationShown)
    /\ [][Len(saved') > Len(saved) => saved' = Append(saved, parsedValue)]_vars

-----------------------------------------------------------------------------
(* Importing a file of entries: handleImport of ContentList (content       *)
(* entries, created with createContent) and of ModelList (models, created  *)
(* with createModel).                                                      *)

MaxEntries == 3

KPublished == <<"p", "u", "b", "l", "i", "s", "h", "e", "d">>

\* the fields an entry must have to be created
RequiredFields(kind) ==
    IF kind = "content" THEN <<KName, KData>> ELSE <<KName, KKind, KFields>>

\* the entries a file may hold: a complete one, one without its last
\* required field, null, and a number
ImportEntries(kind) ==
    IF kind = "content"
    THEN {TObj(<<Entry(KName, StrLeaf(S1("a"))), Entry(KData, TObj(<<>>))>>),
          TObj(<<Entry(KName, StrLeaf(S1("a")))>>),
          TLeaf(Null), TLeaf(Num(S1("1")))}
    ELSE {ModelInput(StrLeaf(S1("a")), PageKind, TArr(<<FieldA>>, <<>>)),
          ModelInput(StrLeaf(S1("a")), PageKind, Absent),
          TLeaf(Null), TLeaf(Num(S1("1")))}

\* the sequences of at most n entries
RECURSIVE EntrySeqs(_, _)
EntrySeqs(kind, n) ==
    IF n = 0 THEN {<<>>}
    ELSE LET shorter == EntrySeqs(kind, n - 1)
         IN  shorter \cup {Append(es, e) : es \in {x \in shorter : Len(x) = n - 1},
                                          e \in ImportEntries(kind)}

\* JSON.parse(text) of the file chosen: a sequence of entries, one entry,
\* or a syntax error
ImportFiles(kind) ==
    {TArr(es, <<>>) : es \in EntrySeqs(kind, MaxEntries)}
      \cup ImportEntries(kind) \cup {SyntaxError}

\* Array.isArray(importedData) ? importedData : [importedData]
contentToImport(importedData) ==
    IF importedData.t = "arr" THEN importedData.el ELSE <<importedData>>

\* the validation of handleImport throws 'Invalid format'
MissingField(kind, entry) ==
    \E i \in 1..Len(RequiredFields(kind)) :
        Falsy(OptionalGet(entry, RequiredFields(kind)[i]))

\* the input of the create request of an entry
CreateInput(kind, entry) ==
    IF kind = "content"
    THEN TObj(<<Entry(KName, OptionalGet(entry, KName)),
                Entry(KData, OptionalGet(entry, KData)),
                Entry(KPublished,
                      IF Falsy(OptionalGet(entry, KPublished)) THEN StrLeaf(<<"d", "r", "a", "f", "t">>)
                      ELSE OptionalGet(entry, KPublished))>>)
    ELSE TObj(<<Entry(KName, OptionalGet(entry, KName)),
                Entry(KKind, OptionalGet(entry, KKind)),
                Entry(KFields, OptionalGet(entry, KFields))>>)

\* the for loop from entry i on, up to its next await: an entry that fails
\* the validation is counted in the inner catch and the loop goes on; an
\* entry that is null throws when its name is read, is counted in the inner
\* catch, and throws again there when the catch reads its name for the
\* message, which ends the loop in the outer catch; a complete entry is sent
RECURSIVE RunLoop(_, _, _, _, _)
RunLoop(kind, es, i, ec, at) ==
    IF i > Len(es) THEN [phase |-> "finished", index |-> i, errorCount |-> ec, attempts |-> at]
    ELSE IF Nullish(es[i])
    THEN [phase |-> "aborted", index |-> i, errorCount |-> ec + 1,
          attempts |-> Append(at, i)]
    ELSE IF MissingField(kind, es[i])
    THEN RunLoop(kind, es, i + 1, ec + 1, Append(at, i))
    ELSE [phase |-> "awaiting", index |-> i, errorCount |-> ec, attempts |-> Append(at, i)]

ImportInit ==
    /\ importKind \in {"content", "models"}
    /\ importFile = TUndefined
    /\ importPhase = "idle"
    /\ importIndex = 0
    /\ successCount = 0
    /\ errorCount = 0
    /\ importing = FALSE
    /\ attempts = <<>>
    /\ created = <<>>
    /\ reloads = 0
    /\ MessagesIdle
    /\ ModalIdle
    /\ EditorIdle
    /\ DetailIdle
    /\ FieldEditorIdle
    /\ MutatorIdle
    /\ WalkerIdle
    /\ DifferIdle

ImportOthers ==
    <<mutVars, walkVars, diffVars, modalVars, editorVars, detailVars, fieldEditorVars,
      success>>

\* handleImport up to await file.text()
handleImport ==
    /\ importPhase = "idle"
    /\ importFile' \in ImportFiles(importKind)
    /\ importing' = TRUE
    /\ error' = ""
    /\ importPhase' = "reading"
    /\ UNCHANGED <<importKind, importIndex, successCount, errorCount, attempts, created,
                   reloads, ImportOthers>>

\* handleImport from entry i on with the counts given, up to its next await
\* or to its end: the request of a complete entry is sent; after the last
\* entry the list is reloaded when an entry succeeded and the flag is
\* cleared; an exception outside the inner try sets the error and clears the
\* flag
ImportContinues(i, sc, ec) ==
    LET run == RunLoop(importKind, contentToImport(importFile), i, ec, attempts)
    IN  /\ importPhase' = run.phase
        /\ importIndex' = run.index
        /\ successCount' = sc
        /\ errorCount' = run.errorCount
        /\ attempts' = run.attempts
        /\ created' = IF run.phase = "awaiting"
                      THEN Append(created,
                             [index |-> run.index,
                              input |-> CreateInput(importKind,
                                          contentToImport(importFile)[run.index])])
                      ELSE created
        /\ reloads' = IF run.phase = "finished" /\ sc > 0 THEN reloads + 1 ELSE reloads
        /\ importing' = (run.phase = "awaiting")
        /\ error' = IF run.phase = "aborted" THEN "Cannot read properties of null"
                    ELSE error

\* file.text() returns: the text is parsed and the loop starts
FileRead ==
    /\ importPhase = "reading"
    /\ IF importFile = SyntaxError
       THEN /\ importPhase' = "aborted"
            /\ error' = "Unexpected token"
            /\ importing' = FALSE
            /\ UNCHANGED <<importIndex, successCount, errorCount, attempts, created,
                           reloads>>
       ELSE ImportContinues(1, 0, 0)
    /\ UNCHANGED <<importKind, importFile, ImportOthers>>

\* the create request returns: it is counted as a success or, in the inner
\* catch, as an error, and the loop goes on with the next entry
CreateSettles ==
    /\ importPhase = "awaiting"
    /\ \E ok \in BOOLEAN :
         IF ok THEN ImportContinues(importIndex + 1, successCount + 1, errorCount)
         ELSE ImportContinues(importIndex + 1, successCount, errorCount + 1)
    /\ UNCHANGED <<importKind, importFile, ImportOthers>>

ImportNext == handleImport \/ FileRead \/ CreateSettles

ImportSpec == ImportInit /\ [][ImportNext]_vars

\* an entry that is no mapping or lacks one of the required fields
LacksRequiredField(kind, entry) ==
    \/ entry.t # "obj"
    \/ \E i \in 1..Len(RequiredFields(kind)) : ~HasKey(entry.ent, RequiredFields(kind)[i])

\* C30: when the import of a file that parses has ended, every entry was
\* taken up once, in file order; the two counts add up to the number of
\* entries; no request was sent for an entry that lacks a required field and
\* at most one for any entry; the importing flag is cleared; and the list was
\* reloaded exactly when an entry succeeded
C30_ImportContinuesPastFailures ==
    importPhase \in {"finished", "aborted"} /\ importFile # SyntaxError =>
        LET es == contentToImport(importFile)
        IN  /\ attempts = [i \in 1..Len(es) |-> i]
            /\ successCount + errorCount = Len(es)
            /\ \A j \in 1..Len(created) :
                 /\ ~LacksRequiredField(importKind, es[created[j].index])
                 /\ \A k \in 1..Len(created) : created[k].index = created[j].index => k = j
            /\ ~importing
            /\ reloads = (IF successCount > 0 THEN 1 ELSE 0)

====
